---- MODULE Spec2Model ----
(***************************************************************************)
(* A model of the two parsing components of the repository:                *)
(*   - parse_policy_response (generate/generate-policies.py): the strict   *)
(*     parse of a model response and the character scan that recovers      *)
(*     complete objects from a truncated response;                         *)
(*   - VulnerabilityParser (parsers/parse_reports.py): the per-tool        *)
(*     extractors, parse_all and save_results.                             *)
(* Texts are sequences of one-character strings.                           *)
(***************************************************************************)
EXTENDS Integers, Sequences, FiniteSets, TLC

(***************************************************************************)
(* Characters                                                              *)
(***************************************************************************)
LB == "{"
RB == "}"
QT == "\""
BSL == "\\"
NL == "\n"
\* U+0060, the code-fence character (the string syntax has no literal for it)
TICK == "<BACKTICK>"

\* str.strip() and the JSON decoder's whitespace
Whitespace == {" ", "\n", "\r", "\t"}

Digits == {"0", "1", "2", "3", "4", "5", "6", "7", "8", "9"}

DigitVal(c) ==
    CASE c = "0" -> 0 [] c = "1" -> 1 [] c = "2" -> 2 [] c = "3" -> 3
      [] c = "4" -> 4 [] c = "5" -> 5 [] c = "6" -> 6 [] c = "7" -> 7
      [] c = "8" -> 8 [] OTHER -> 9

(***************************************************************************)
(* json.loads, restricted to the values the modelled texts can hold:       *)
(* objects, arrays, strings and unsigned integers.  The literals true,     *)
(* false, null, NaN and Infinity need letters the modelled texts never     *)
(* hold, so a bare letter is a decode error, as it is for the decoder.     *)
(* A JSON value is a record [t, v]: t in {"obj","arr","str","num"}; an     *)
(* object's v is a function from keys to values (a later duplicate key     *)
(* replaces an earlier one, as in a Python dict).                          *)
(***************************************************************************)
Fail == [ok |-> FALSE, val |-> [t |-> "none", v |-> 0], next |-> 0]

Ok(val, next) == [ok |-> TRUE, val |-> val, next |-> next]

\* The first position >= p that holds no whitespace (Len(s)+1 when none).
SkipWs(s, p) ==
    CHOOSE q \in p..(Len(s) + 1) :
        /\ \A r \in p..(q - 1) : s[r] \in Whitespace
        /\ (q = Len(s) + 1 \/ s[q] \notin Whitespace)

\* The character an escape sequence \c stands for.
Unescape(c) ==
    CASE c = "b" -> "<BS>" [] c = "f" -> "<FF>" [] c = "n" -> "\n"
      [] c = "r" -> "\r" [] c = "t" -> "\t" [] OTHER -> c

RECURSIVE ScanString(_, _, _)
\* py_scanstring from the character after the opening quote: acc is the
\* decoded content so far.  Strict mode rejects raw control characters.
ScanString(s, p, acc) ==
    IF p > Len(s) THEN Fail
    ELSE IF s[p] = QT THEN Ok([t |-> "str", v |-> acc], p + 1)
    ELSE IF s[p] = BSL THEN
        IF p + 1 > Len(s) THEN Fail
        ELSE IF s[p + 1] \in {QT, BSL, "/", "b", "f", "n", "r", "t"}
             THEN ScanString(s, p + 2, Append(acc, Unescape(s[p + 1])))
             ELSE Fail
    ELSE IF s[p] \in {"\n", "\r", "\t"} THEN Fail
    ELSE ScanString(s, p + 1, Append(acc, s[p]))

RECURSIVE ScanNumber(_, _, _)
\* The integer part of NUMBER_RE, digits taken greedily from p.
ScanNumber(s, p, acc) ==
    IF p <= Len(s) /\ s[p] \in Digits
    THEN ScanNumber(s, p + 1, acc * 10 + DigitVal(s[p]))
    ELSE Ok([t |-> "num", v |-> acc], p)

RECURSIVE ScanOnce(_, _), ScanMembers(_, _, _), ScanElements(_, _, _)
\* scanner.py_make_scanner._scan_once: one value starting exactly at p.
ScanOnce(s, p) ==
    IF p > Len(s) THEN Fail
    ELSE IF s[p] = QT THEN ScanString(s, p + 1, <<>>)
    ELSE IF s[p] = LB THEN
        LET q == SkipWs(s, p + 1) IN
        IF q <= Len(s) /\ s[q] = RB
        THEN Ok([t |-> "obj", v |-> <<>>], q + 1)
        ELSE ScanMembers(s, q, <<>>)
    ELSE IF s[p] = "[" THEN
        LET q == SkipWs(s, p + 1) IN
        IF q <= Len(s) /\ s[q] = "]"
        THEN Ok([t |-> "arr", v |-> <<>>], q + 1)
        ELSE ScanElements(s, q, <<>>)
    ELSE IF s[p] = "0" THEN Ok([t |-> "num", v |-> 0], p + 1)
    ELSE IF s[p] \in Digits THEN ScanNumber(s, p, 0)
    ELSE Fail

\* JSONObject after the opening brace: p is at the quote of the next key,
\* acc the members decoded so far.
ScanMembers(s, p, acc) ==
    IF p > Len(s) \/ s[p] # QT THEN Fail
    ELSE
      LET k == ScanString(s, p + 1, <<>>) IN
      IF ~k.ok THEN Fail
      ELSE
        LET c == SkipWs(s, k.next) IN
        IF c > Len(s) \/ s[c] # ":" THEN Fail
        ELSE
          LET val == ScanOnce(s, SkipWs(s, c + 1)) IN
          IF ~val.ok THEN Fail
          ELSE
            LET acc2 == (k.val.v :> val.val) @@ acc
                e == SkipWs(s, val.next)
            IN  IF e > Len(s) THEN Fail
                ELSE IF s[e] = RB THEN Ok([t |-> "obj", v |-> acc2], e + 1)
                ELSE IF s[e] = "," THEN ScanMembers(s, SkipWs(s, e + 1), acc2)
                ELSE Fail

\* JSONArray after the opening bracket: p is at the next element.
ScanElements(s, p, acc) ==
    LET val == ScanOnce(s, p) IN
    IF ~val.ok THEN Fail
    ELSE
      LET acc2 == Append(acc, val.val)
          e == SkipWs(s, val.next)
      IN  IF e > Len(s) THEN Fail
          ELSE IF s[e] = "]" THEN Ok([t |-> "arr", v |-> acc2], e + 1)
          ELSE IF s[e] = "," THEN ScanElements(s, SkipWs(s, e + 1), acc2)
          ELSE Fail

\* json.loads(s): one value, whitespace around it, nothing else
\* ("Extra data" otherwise).  ok = FALSE stands for JSONDecodeError.
JsonLoads(s) ==
    LET r == ScanOnce(s, SkipWs(s, 1)) IN
    IF r.ok /\ SkipWs(s, r.next) = Len(s) + 1 THEN r ELSE Fail

(***************************************************************************)
(* String helpers of parse_policy_response                                 *)
(***************************************************************************)
StartsWith(s, pre) ==
    Len(s) >= Len(pre) /\ SubSeq(s, 1, Len(pre)) = pre

\* str.strip(): leading and trailing whitespace removed.
Strip(s) ==
    LET keep == {k \in 1..Len(s) : s[k] \notin Whitespace} IN
    IF keep = {} THEN <<>>
    ELSE SubSeq(s, CHOOSE a \in keep : \A b \in keep : a <= b,
                   CHOOSE a \in keep : \A b \in keep : a >= b)

RECURSIVE SplitLines(_, _)
\* str.split("\n"): cur is the line being read.
SplitLines(s, cur) ==
    IF s = <<>> THEN <<cur>>
    ELSE IF Head(s) = NL THEN <<cur>> \o SplitLines(Tail(s), <<>>)
    ELSE SplitLines(Tail(s), Append(cur, Head(s)))

RECURSIVE JoinLines(_)
\* "\n".join(lines)
JoinLines(lines) ==
    IF lines = <<>> THEN <<>>
    ELSE IF Len(lines) = 1 THEN lines[1]
    ELSE lines[1] \o <<NL>> \o JoinLines(Tail(lines))

Fence == <<TICK, TICK, TICK>>

FenceJson == <<TICK, TICK, TICK, "j", "s", "o", "n">>

\* StripFences with lines[1:-1] whatever the last line is.
StripFencesAlways(text) ==
    LET t == Strip(text) IN
    IF StartsWith(t, Fence) THEN
        LET lines == SplitLines(t, <<>>) IN
        IF StartsWith(lines[1], FenceJson) \/ StartsWith(lines[1], Fence)
        THEN JoinLines(SubSeq(lines, 2, Len(lines) - 1))
        ELSE t
    ELSE t

\* Lines 224-230: strip, then drop the opening fence line and, when the
\* last line is a fence, that line too.
StripFences(text) ==
    LET t == Strip(text) IN
    IF StartsWith(t, Fence) THEN
        LET lines == SplitLines(t, <<>>) IN
        IF StartsWith(lines[1], FenceJson) \/ StartsWith(lines[1], Fence)
        THEN IF StartsWith(lines[Len(lines)], Fence)
             THEN JoinLines(SubSeq(lines, 2, Len(lines) - 1))
             ELSE JoinLines(SubSeq(lines, 2, Len(lines)))
        ELSE t
    ELSE t

PoliciesKey == <<QT, "p", "o", "l", "i", "c", "i", "e", "s", QT>>

\* Whether the pattern "policies"\s*:\s*\[ matches starting at a, and the
\* position of its "[" when it does (0 otherwise).
PatternAt(s, a) ==
    IF a + Len(PoliciesKey) - 1 > Len(s)
       \/ SubSeq(s, a, a + Len(PoliciesKey) - 1) # PoliciesKey
    THEN 0
    ELSE LET c == SkipWs(s, a + Len(PoliciesKey)) IN
         IF c > Len(s) \/ s[c] # ":" THEN 0
         ELSE LET b == SkipWs(s, c + 1) IN
              IF b > Len(s) \/ s[b] # "[" THEN 0 ELSE b

\* re.search: the leftmost match; the position of its last character, the
\* "[" (Python's policies_match.end(), counted from 1), or 0 for no match.
PoliciesMatchEnd(s) ==
    LET hits == {a \in 1..Len(s) : PatternAt(s, a) # 0} IN
    IF hits = {} THEN 0
    ELSE PatternAt(s, CHOOSE a \in hits : \A b \in hits : a <= b)

\* Line 265: start_idx = policies_match.end() - 1, the index of the "["
\* itself ("Include the '['"); as a position counted from 1 it is m.
StartIdx(m) == m

\* SkipSeparators that hands back the position of the brace just read.
SkipSeparatorsBack(s, p) == p - 1

\* Lines 309-311: the index after the run of blanks and commas from p.
SkipSeparators(s, p) ==
    CHOOSE q \in p..(Len(s) + 1) :
        /\ \A r \in p..(q - 1) : s[r] \in {" ", "\n", "\r", "\t", ","}
        /\ (q = Len(s) + 1 \/ s[q] \notin {" ", "\n", "\r", "\t", ","})

(***************************************************************************)
(* The responses parse_policy_response is run on: complete documents       *)
(* {"policies": [e1,...,en]}, every truncation of one, fenced variants,    *)
(* and a few malformed responses.                                          *)
(***************************************************************************)
MaxElems == 2

Header == <<LB>> \o PoliciesKey \o <<":", " ", "[">>

ObjA == <<LB, QT, "a", QT, ":", "1", RB>>

ObjB == <<LB, QT, "b", QT, ":", "2", RB>>

\* {"c":"\"{\""} : a string field holding escaped quotes and a brace
ObjC == <<LB, QT, "c", QT, ":", QT, BSL, QT, LB, BSL, QT, QT, RB>>

\* {"a":{"b":2}} : a nested object
ObjN == <<LB, QT, "a", QT, ":">> \o ObjB \o <<RB>>

ElemPool == {ObjA, ObjB, ObjC, ObjN}

RECURSIVE JoinElems(_)
JoinElems(es) ==
    IF es = <<>> THEN <<>>
    ELSE IF Len(es) = 1 THEN es[1]
    ELSE es[1] \o <<",">> \o JoinElems(Tail(es))

ElemSeqs == UNION {[1..n -> ElemPool] : n \in 0..MaxElems}

Document(es) == Header \o JoinElems(es) \o <<"]", RB>>

CompleteDocs == {Document(es) : es \in ElemSeqs}

Prefixes(d) == {SubSeq(d, 1, k) : k \in 0..Len(d)}

Truncations == UNION {Prefixes(d) : d \in CompleteDocs}

FencedDocs == {FenceJson \o <<NL>> \o d \o <<NL>> \o Fence : d \in CompleteDocs}

FencedCuts == {Fence \o <<NL>> \o t : t \in Prefixes(Document(<<ObjA>>))}

\* the text of the partial-recovery example: cut inside the third element
CutInThird == Header \o ObjA \o <<",">> \o ObjB \o <<",", LB, QT, "c", QT, ":">>

Malformed ==
    { ObjA,                                           \* no "policies" field
      <<"[">> \o ObjA \o <<"]">>,                     \* a bare list
      <<"1">>,                                        \* a number
      PoliciesKey,                                    \* a string
      <<"[">> \o PoliciesKey \o <<"]">>,              \* a list holding "policies"
      <<LB>> \o PoliciesKey \o <<":", "1", RB>>,      \* "policies" is a number
      CutInThird,
      Header \o <<"]", RB, ",">> \o ObjA \o <<",", LB>>,
      Header \o <<BSL>> \o ObjA \o <<",">> \o ObjB \o <<",", LB>>,
      Header \o <<LB, "a", RB, ",">> \o ObjB \o <<",", LB>>,
      Header \o <<" ">> \o ObjA \o <<" ", ",", NL>> \o ObjB \o <<",", " ", LB, QT>> }

Inputs == Truncations \cup FencedDocs \cup FencedCuts \cup Malformed

Parsed(objText) == JsonLoads(objText).val

(***************************************************************************)
(* Python's operations on the decoded document (lines 237-251)             *)
(***************************************************************************)
\* s.find(sub) >= 0
Contains(s, sub) ==
    \E a \in 1..(Len(s) - Len(sub) + 1) : SubSeq(s, a, a + Len(sub) - 1) = sub

KeyPolicies == <<"p", "o", "l", "i", "c", "i", "e", "s">>

\* "policies" in policy_data ("TypeError" for a number, which is not iterable)
InPolicies(pd) ==
    CASE pd.t = "obj" -> IF KeyPolicies \in DOMAIN pd.v THEN "yes" ELSE "no"
      [] pd.t = "arr" -> IF \E k \in DOMAIN pd.v :
                               pd.v[k] = [t |-> "str", v |-> KeyPolicies]
                          THEN "yes" ELSE "no"
      [] pd.t = "str" -> IF Contains(pd.v, KeyPolicies) THEN "yes" ELSE "no"
      [] OTHER -> "TypeError"

\* len(x) ("TypeError" for a number)
PyLen(x) ==
    CASE x.t = "obj" -> Cardinality(DOMAIN x.v)
      [] x.t = "num" -> -1
      [] OTHER -> Len(x.v)

NoResult == [kind |-> "none", policies |-> [t |-> "arr", v |-> <<>>],
             total_policies |-> 0, is_truncated |-> FALSE]

Raised(exc) == [NoResult EXCEPT !.kind = exc]

\* Lines 245-251: the document returned with its metadata; the metadata of
\* this path has no is_truncated key (FALSE here).
Returned(policies) ==
    [kind |-> "returned", policies |-> policies,
     total_policies |-> PyLen(policies), is_truncated |-> FALSE]

\* Lines 236-251: what the try block does with the decoded document pd.
StrictOutcome(pd) ==
    LET has == InPolicies(pd) IN
    IF has = "TypeError" THEN Raised("TypeError")
    ELSE IF has = "no" THEN
        IF pd.t = "arr" THEN Returned(pd) ELSE Raised("ValueError")
    ELSE IF pd.t # "obj" THEN Raised("TypeError")
    ELSE IF PyLen(pd.v[KeyPolicies]) < 0 THEN Raised("TypeError")
    ELSE Returned(pd.v[KeyPolicies])

\* PartialResult with partial_data["policies"] read without the guard of line
\* 330: a TypeError when nothing was recovered (partial_data is None).
PartialResultUnguarded(recovered) ==
    IF recovered = <<>> THEN Raised("TypeError")
    ELSE [kind |-> "returned", policies |-> [t |-> "arr", v |-> recovered],
          total_policies |-> Len(recovered), is_truncated |-> TRUE]

\* Lines 330-347: the result of the except branch, from the objects the
\* scan recovered (partial_data is set only when there are some).
PartialResult(recovered) ==
    [kind |-> "returned", policies |-> [t |-> "arr", v |-> recovered],
     total_policies |-> Len(recovered), is_truncated |-> TRUE]

(***************************************************************************)
(* parse_policy_response as a state machine: one step for the fence        *)
(* stripping, one for the strict parse, one for the pattern search, one    *)
(* per iteration of the while loop, one for building the result.           *)
(***************************************************************************)
VARIABLES
    raw_text,        \* the argument response_text
    response_text,   \* the local response_text (stripped at line 224-230)
    pc,              \* position in the function
    i,               \* the scan index (counted from 1)
    bracket_depth,
    in_string,
    escape_next,
    current_policy,  \* the accumulator
    policies_text,   \* the objects recovered so far
    strict_ok,       \* whether json.loads at line 234 succeeded
    result           \* what the call returned or raised

recVars == <<raw_text, response_text, pc, i, bracket_depth, in_string,
             escape_next, current_policy, policies_text, strict_ok, result>>

RecInit ==
    /\ raw_text \in Inputs
    /\ response_text = raw_text
    /\ pc = "start"
    /\ i = 0
    /\ bracket_depth = 0
    /\ in_string = FALSE
    /\ escape_next = FALSE
    /\ current_policy = <<>>
    /\ policies_text = <<>>
    /\ strict_ok = FALSE
    /\ result = NoResult

scanState == <<i, bracket_depth, in_string, escape_next, current_policy,
               policies_text>>

\* Lines 224-230
StripStep ==
    /\ pc = "start"
    /\ response_text' = StripFences(response_text)
    /\ pc' = "strict"
    /\ UNCHANGED <<raw_text, scanState, strict_ok, result>>

\* Lines 233-251: the strict parse succeeds; the function returns or raises
\* from inside the try block (only JSONDecodeError is caught).
StrictParseOk ==
    /\ pc = "strict"
    /\ JsonLoads(response_text).ok
    /\ strict_ok' = TRUE
    /\ result' = StrictOutcome(JsonLoads(response_text).val)
    /\ pc' = "done"
    /\ UNCHANGED <<raw_text, response_text, scanState>>

\* StrictParseFails with the recovery entered whatever the strict parse says.
StrictParseSkipped ==
    /\ pc = "strict"
    /\ pc' = "locate"
    /\ UNCHANGED <<raw_text, response_text, scanState, strict_ok, result>>

\* Line 252: JSONDecodeError
StrictParseFails ==
    /\ pc = "strict"
    /\ ~JsonLoads(response_text).ok
    /\ pc' = "locate"
    /\ UNCHANGED <<raw_text, response_text, scanState, strict_ok, result>>

\* Lines 263-273: the array is found, the scan state is initialised.
LocateFound ==
    /\ pc = "locate"
    /\ PoliciesMatchEnd(response_text) # 0
    /\ i' = StartIdx(PoliciesMatchEnd(response_text))
    /\ bracket_depth' = 0
    /\ in_string' = FALSE
    /\ escape_next' = FALSE
    /\ current_policy' = <<>>
    /\ policies_text' = <<>>
    /\ pc' = "scan"
    /\ UNCHANGED <<raw_text, response_text, strict_ok, result>>

\* Line 264: no match, partial_data stays None.
LocateMissing ==
    /\ pc = "locate"
    /\ PoliciesMatchEnd(response_text) = 0
    /\ pc' = "finish"
    /\ UNCHANGED <<raw_text, response_text, scanState, strict_ok, result>>

Scanning == pc = "scan" /\ i <= Len(response_text)

char == response_text[i]

\* Lines 277-281
ScanEscaped ==
    /\ Scanning
    /\ escape_next
    /\ current_policy' = Append(current_policy, char)
    /\ escape_next' = FALSE
    /\ i' = i + 1
    /\ UNCHANGED <<raw_text, response_text, pc, bracket_depth, in_string,
                   policies_text, strict_ok, result>>

\* ScanBackslash without line 285: the next character is not skipped.
ScanBackslashNoEscape ==
    /\ Scanning
    /\ ~escape_next
    /\ char = BSL
    /\ current_policy' = Append(current_policy, char)
    /\ i' = i + 1
    /\ UNCHANGED <<raw_text, response_text, pc, bracket_depth, in_string,
                   escape_next, policies_text, strict_ok, result>>

\* Lines 283-287
ScanBackslash ==
    /\ Scanning
    /\ ~escape_next
    /\ char = BSL
    /\ current_policy' = Append(current_policy, char)
    /\ escape_next' = TRUE
    /\ i' = i + 1
    /\ UNCHANGED <<raw_text, response_text, pc, bracket_depth, in_string,
                   policies_text, strict_ok, result>>

\* Lines 289-291, 318
ScanQuote ==
    /\ Scanning
    /\ ~escape_next
    /\ char = QT
    /\ in_string' = ~in_string
    /\ current_policy' = Append(current_policy, char)
    /\ i' = i + 1
    /\ UNCHANGED <<raw_text, response_text, pc, bracket_depth, escape_next,
                   policies_text, strict_ok, result>>

\* Lines 293-295, 318
ScanOpenBrace ==
    /\ Scanning
    /\ ~escape_next
    /\ ~in_string
    /\ char = LB
    /\ bracket_depth' = bracket_depth + 1
    /\ current_policy' = Append(current_policy, char)
    /\ i' = i + 1
    /\ UNCHANGED <<raw_text, response_text, pc, in_string, escape_next,
                   policies_text, strict_ok, result>>

\* Lines 296-298, 318: a closing brace that leaves the depth non-zero.
ScanCloseBrace ==
    /\ Scanning
    /\ ~escape_next
    /\ ~in_string
    /\ char = RB
    /\ bracket_depth - 1 # 0
    /\ bracket_depth' = bracket_depth - 1
    /\ current_policy' = Append(current_policy, char)
    /\ i' = i + 1
    /\ UNCHANGED <<raw_text, response_text, pc, in_string, escape_next,
                   policies_text, strict_ok, result>>

\* Lines 296-312: a closing brace that brings the depth to zero.  The
\* accumulator is parsed; on success the object is kept and the accumulator
\* reset, on failure (bare except) the accumulator is left as it is.  Then
\* the index skips blanks and commas.
ScanCloseObject ==
    /\ Scanning
    /\ ~escape_next
    /\ ~in_string
    /\ char = RB
    /\ bracket_depth - 1 = 0
    /\ bracket_depth' = 0
    /\ LET policy_str == Append(current_policy, char) IN
       IF JsonLoads(policy_str).ok
       THEN /\ policies_text' = Append(policies_text, JsonLoads(policy_str).val)
            /\ current_policy' = <<>>
       ELSE /\ policies_text' = policies_text
            /\ current_policy' = policy_str
    /\ i' = SkipSeparators(response_text, i + 1)
    /\ UNCHANGED <<raw_text, response_text, pc, in_string, escape_next,
                   strict_ok, result>>

\* Lines 313-318: any other character is accumulated.
ScanOther ==
    /\ Scanning
    /\ ~escape_next
    /\ char \notin {BSL, QT}
    /\ in_string \/ char \notin {LB, RB}
    /\ current_policy' = Append(current_policy, char)
    /\ i' = i + 1
    /\ UNCHANGED <<raw_text, response_text, pc, bracket_depth, in_string,
                   escape_next, policies_text, strict_ok, result>>

\* ScanEnd that keeps what is left in the accumulator as one more entry.
ScanEndKeepsTail ==
    /\ pc = "scan"
    /\ i > Len(response_text)
    /\ policies_text' = IF current_policy = <<>> THEN policies_text
                        ELSE Append(policies_text,
                                    [t |-> "str", v |-> current_policy])
    /\ pc' = "finish"
    /\ UNCHANGED <<raw_text, response_text, i, bracket_depth, in_string,
                   escape_next, current_policy, strict_ok, result>>

\* Line 274: the loop ends; what is still accumulated is dropped.
ScanEnd ==
    /\ pc = "scan"
    /\ i > Len(response_text)
    /\ pc' = "finish"
    /\ UNCHANGED <<raw_text, response_text, scanState, strict_ok, result>>

\* Lines 320-347
Finish ==
    /\ pc = "finish"
    /\ result' = PartialResult(policies_text)
    /\ pc' = "done"
    /\ UNCHANGED <<raw_text, response_text, scanState, strict_ok>>

(***************************************************************************)
(* VulnerabilityParser (parsers/parse_reports.py).  Strings the code       *)
(* operates on (titles, severities, CWE and OWASP values, file names) are  *)
(* sequences of characters; a field a report leaves out is None.           *)
(***************************************************************************)
None == <<"<none>">>

\* dict.get(key, default)
Get(x, default) == IF x = None THEN default ELSE x

Lowers == <<"a", "b", "c", "d", "e", "f", "g", "h", "i", "j", "k", "l", "m", "n", "o", "p", "q", "r", "s", "t", "u", "v", "w", "x", "y", "z">>

Uppers == <<"A", "B", "C", "D", "E", "F", "G", "H", "I", "J", "K", "L", "M", "N", "O", "P", "Q", "R", "S", "T", "U", "V", "W", "X", "Y", "Z">>

UpperChar(c) ==
    IF \E k \in 1..Len(Lowers) : Lowers[k] = c
    THEN Uppers[CHOOSE k \in 1..Len(Lowers) : Lowers[k] = c] ELSE c

LowerChar(c) ==
    IF \E k \in 1..Len(Uppers) : Uppers[k] = c
    THEN Lowers[CHOOSE k \in 1..Len(Uppers) : Uppers[k] = c] ELSE c

\* str.upper()
Upper(s) == [k \in 1..Len(s) |-> UpperChar(s[k])]

\* str.lower()
Lower(s) == [k \in 1..Len(s) |-> LowerChar(s[k])]

\* The longest run of digits of s that starts at position p.
DigitRun(s, p) ==
    LET stop == CHOOSE q \in p..(Len(s) + 1) :
                   /\ \A r \in p..(q - 1) : s[r] \in Digits
                   /\ (q = Len(s) + 1 \/ s[q] \notin Digits)
    IN  SubSeq(s, p, stop - 1)

\* re.search(r'cwe-?(\d+)', s, re.IGNORECASE) when dashOptional, and
\* re.search(r'CWE-(\d+)', s, re.IGNORECASE) otherwise: group 1 of the
\* leftmost match, <<>> when there is none.
CweSearch(s, dashOptional) ==
    LET low == Lower(s)
        DigitsFrom(a) ==
            IF a + 2 > Len(s) \/ SubSeq(low, a, a + 2) # <<"c", "w", "e">> THEN <<>>
            ELSE IF a + 3 <= Len(s) /\ s[a + 3] = "-" /\ DigitRun(s, a + 4) # <<>>
                 THEN DigitRun(s, a + 4)
            ELSE IF dashOptional THEN DigitRun(s, a + 3)
            ELSE <<>>
        hits == {a \in 1..Len(s) : DigitsFrom(a) # <<>>}
    IN  IF hits = {} THEN <<>>
        ELSE DigitsFrom(CHOOSE a \in hits : \A b \in hits : a <= b)

CwePrefix == <<"C", "W", "E", "-">>

CweUnknown == <<"C", "W", "E", "-", "U", "n", "k", "n", "o", "w", "n">>

\* Lines 22-33
CWE_MAPPING ==
    << <<<<"S", "Q", "L", " ", "I", "n", "j", "e", "c", "t", "i", "o", "n">>, <<"C", "W", "E", "-", "8", "9">>>>,
       <<<<"X", "S", "S">>, <<"C", "W", "E", "-", "7", "9">>>>,
       <<<<"P", "a", "t", "h", " ", "T", "r", "a", "v", "e", "r", "s", "a", "l">>, <<"C", "W", "E", "-", "2", "2">>>>,
       <<<<"C", "o", "m", "m", "a", "n", "d", " ", "I", "n", "j", "e", "c", "t", "i", "o", "n">>, <<"C", "W", "E", "-", "7", "8">>>>,
       <<<<"I", "n", "s", "e", "c", "u", "r", "e", " ", "D", "e", "s", "e", "r", "i", "a", "l", "i", "z", "a", "t", "i", "o", "n">>, <<"C", "W", "E", "-", "5", "0", "2">>>>,
       <<<<"B", "r", "o", "k", "e", "n", " ", "A", "u", "t", "h", "e", "n", "t", "i", "c", "a", "t", "i", "o", "n">>, <<"C", "W", "E", "-", "2", "8", "7">>>>,
       <<<<"S", "e", "n", "s", "i", "t", "i", "v", "e", " ", "D", "a", "t", "a", " ", "E", "x", "p", "o", "s", "u", "r", "e">>, <<"C", "W", "E", "-", "2", "0", "0">>>>,
       <<<<"X", "X", "E">>, <<"C", "W", "E", "-", "6", "1", "1">>>>,
       <<<<"B", "r", "o", "k", "e", "n", " ", "A", "c", "c", "e", "s", "s", " ", "C", "o", "n", "t", "r", "o", "l">>, <<"C", "W", "E", "-", "2", "8", "4">>>>,
       <<<<"S", "e", "c", "u", "r", "i", "t", "y", " ", "M", "i", "s", "c", "o", "n", "f", "i", "g", "u", "r", "a", "t", "i", "o", "n">>, <<"C", "W", "E", "-", "1", "6">>>> >>

\* table.get(key, default) for a table of <<key, value>> pairs
Lookup(table, key, default) ==
    IF \E k \in 1..Len(table) : table[k][1] = key
    THEN table[CHOOSE k \in 1..Len(table) : table[k][1] = key][2]
    ELSE default

SevCritical == <<"C", "R", "I", "T", "I", "C", "A", "L">>

SevHigh == <<"H", "I", "G", "H">>

SevMedium == <<"M", "E", "D", "I", "U", "M">>

SevLow == <<"L", "O", "W">>

SevInfo == <<"I", "N", "F", "O">>

\* Lines 35-41: the keys of SEVERITY_MAPPING
SEVERITY_MAPPING == {SevCritical, SevHigh, SevMedium, SevLow, SevInfo}

\* Lines 123-131
map_codeql_level(level) ==
    Lookup(<< <<<<"e", "r", "r", "o", "r">>, SevHigh>>, <<<<"w", "a", "r", "n", "i", "n", "g">>, SevMedium>>,
              <<<<"n", "o", "t", "e">>, SevLow>>, <<<<"n", "o", "n", "e">>, SevInfo>> >>,
           Lower(level), SevMedium)

\* map_zap_risk with INFO as the default of the lookup.
map_zap_risk_default_info(risk_code) ==
    Lookup(<< <<<<"3">>, SevHigh>>, <<<<"2">>, SevMedium>>,
              <<<<"1">>, SevLow>>, <<<<"0">>, SevInfo>> >>,
           risk_code, SevInfo)

\* Lines 329-337
map_zap_risk(risk_code) ==
    Lookup(<< <<<<"3">>, SevHigh>>, <<<<"2">>, SevMedium>>,
              <<<<"1">>, SevLow>>, <<<<"0">>, SevInfo>> >>,
           risk_code, SevMedium)

\* Lines 339-345
extract_cwe(check_id) ==
    IF CweSearch(check_id, FALSE) # <<>>
    THEN CwePrefix \o CweSearch(check_id, FALSE)
    ELSE CweUnknown

OwaspInjection == <<"A", "0", "3", ":", "2", "0", "2", "1", " ", "-", " ", "I", "n", "j", "e", "c", "t", "i", "o", "n">>

OwaspAuth == <<"A", "0", "7", ":", "2", "0", "2", "1", " ", "-", " ", "I", "d", "e", "n", "t", "i", "f", "i", "c", "a", "t", "i", "o", "n", " ", "a", "n", "d", " ", "A", "u", "t", "h", "e", "n", "t", "i", "c", "a", "t", "i", "o", "n", " ", "F", "a", "i", "l", "u", "r", "e", "s">>

OwaspAccess == <<"A", "0", "1", ":", "2", "0", "2", "1", " ", "-", " ", "B", "r", "o", "k", "e", "n", " ", "A", "c", "c", "e", "s", "s", " ", "C", "o", "n", "t", "r", "o", "l">>

OwaspCrypto == <<"A", "0", "2", ":", "2", "0", "2", "1", " ", "-", " ", "C", "r", "y", "p", "t", "o", "g", "r", "a", "p", "h", "i", "c", " ", "F", "a", "i", "l", "u", "r", "e", "s">>

OwaspMisconfig == <<"A", "0", "5", ":", "2", "0", "2", "1", " ", "-", " ", "S", "e", "c", "u", "r", "i", "t", "y", " ", "M", "i", "s", "c", "o", "n", "f", "i", "g", "u", "r", "a", "t", "i", "o", "n">>

OwaspIntegrity == <<"A", "0", "8", ":", "2", "0", "2", "1", " ", "-", " ", "S", "o", "f", "t", "w", "a", "r", "e", " ", "a", "n", "d", " ", "D", "a", "t", "a", " ", "I", "n", "t", "e", "g", "r", "i", "t", "y", " ", "F", "a", "i", "l", "u", "r", "e", "s">>

OwaspOutdated == <<"A", "0", "6", ":", "2", "0", "2", "1", " ", "-", " ", "V", "u", "l", "n", "e", "r", "a", "b", "l", "e", " ", "a", "n", "d", " ", "O", "u", "t", "d", "a", "t", "e", "d", " ", "C", "o", "m", "p", "o", "n", "e", "n", "t", "s">>

OwaspLogging == <<"A", "0", "9", ":", "2", "0", "2", "1", " ", "-", " ", "S", "e", "c", "u", "r", "i", "t", "y", " ", "L", "o", "g", "g", "i", "n", "g", " ", "a", "n", "d", " ", "M", "o", "n", "i", "t", "o", "r", "i", "n", "g", " ", "F", "a", "i", "l", "u", "r", "e", "s">>

OwaspSsrf == <<"A", "1", "0", ":", "2", "0", "2", "1", " ", "-", " ", "S", "e", "r", "v", "e", "r", "-", "S", "i", "d", "e", " ", "R", "e", "q", "u", "e", "s", "t", " ", "F", "o", "r", "g", "e", "r", "y">>

OwaspInsecureDesign == <<"A", "0", "4", ":", "2", "0", "2", "1", " ", "-", " ", "I", "n", "s", "e", "c", "u", "r", "e", " ", "D", "e", "s", "i", "g", "n">>

\* Lines 252 and 281: the literal the two SCA extractors write
OwaspVulnerableComponents == <<"A", "0", "6", ":", "2", "0", "2", "1", " ", "-", " ", "V", "u", "l", "n", "e", "r", "a", "b", "l", "e", " ", "C", "o", "m", "p", "o", "n", "e", "n", "t", "s">>

\* Lines 349-364, in declaration order
owasp_mapping ==
    << <<<<"s", "q", "l">>, OwaspInjection>>,
       <<<<"i", "n", "j", "e", "c", "t", "i", "o", "n">>, OwaspInjection>>,
       <<<<"x", "s", "s">>, OwaspInjection>>,
       <<<<"a", "u", "t", "h", "e", "n", "t", "i", "c", "a", "t", "i", "o", "n">>, OwaspAuth>>,
       <<<<"s", "e", "s", "s", "i", "o", "n">>, OwaspAuth>>,
       <<<<"a", "c", "c", "e", "s", "s">>, OwaspAccess>>,
       <<<<"a", "u", "t", "h", "o", "r", "i", "z", "a", "t", "i", "o", "n">>, OwaspAccess>>,
       <<<<"c", "r", "y", "p", "t", "o">>, OwaspCrypto>>,
       <<<<"s", "e", "n", "s", "i", "t", "i", "v", "e">>, OwaspCrypto>>,
       <<<<"x", "x", "e">>, OwaspMisconfig>>,
       <<<<"d", "e", "s", "e", "r", "i", "a", "l", "i", "z", "a", "t", "i", "o", "n">>, OwaspIntegrity>>,
       <<<<"c", "o", "m", "p", "o", "n", "e", "n", "t">>, OwaspOutdated>>,
       <<<<"l", "o", "g", "g", "i", "n", "g">>, OwaspLogging>>,
       <<<<"s", "s", "r", "f">>, OwaspSsrf>> >>

\* map_to_owasp that lets the last matching pair win.
map_to_owasp_last(vulnerability_type) ==
    LET vulnerability_lower == Lower(vulnerability_type)
        hits == {k \in 1..Len(owasp_mapping) :
                    Contains(vulnerability_lower, owasp_mapping[k][1])}
    IN  IF hits = {} THEN OwaspInsecureDesign
        ELSE owasp_mapping[CHOOSE k \in hits : \A j \in hits : k >= j][2]

\* Lines 347-371: the first pair, in declaration order, whose keyword is in
\* the lowercased argument.
map_to_owasp(vulnerability_type) ==
    LET vulnerability_lower == Lower(vulnerability_type)
        hits == {k \in 1..Len(owasp_mapping) :
                    Contains(vulnerability_lower, owasp_mapping[k][1])}
    IN  IF hits = {} THEN OwaspInsecureDesign
        ELSE owasp_mapping[CHOOSE k \in hits : \A j \in hits : k <= j][2]

\* extract_cwe_from_codeql with the rule's tags read before the result's.
extract_cwe_rule_first(res) ==
    LET all == res.rule_tags \o res.tags
        hits == {k \in 1..Len(all) :
                    /\ Contains(Lower(all[k]), <<"c", "w", "e">>)
                    /\ CweSearch(all[k], TRUE) # <<>>}
    IN  IF hits = {} THEN CweUnknown
        ELSE CwePrefix \o CweSearch(all[CHOOSE k \in hits : \A j \in hits : k <= j], TRUE)

\* Lines 133-159: result tags first, then the rule's tags.
extract_cwe_from_codeql(res) ==
    LET all == res.tags \o res.rule_tags
        hits == {k \in 1..Len(all) :
                    /\ Contains(Lower(all[k]), <<"c", "w", "e">>)
                    /\ CweSearch(all[k], TRUE) # <<>>}
    IN  IF hits = {} THEN CweUnknown
        ELSE CwePrefix \o CweSearch(all[CHOOSE k \in hits : \A j \in hits : k <= j], TRUE)

(***************************************************************************)
(* The extractors.  A report's content is [valid, findings]: valid = FALSE *)
(* is a file json.load or ET.parse rejects; a finding with isdict = FALSE  *)
(* is an entry that is not an object (its .get raises AttributeError).     *)
(* Each extractor yields the records it appended and whether it raised.    *)
(***************************************************************************)
\* Lines 101-113
CodeqlRecord(r) ==
    [tool |-> "CodeQL", type |-> "SAST",
     title |-> Get(r.ruleId, <<"U", "n", "k", "n", "o", "w", "n">>),
     severity |-> map_codeql_level(Get(r.level, <<"w", "a", "r", "n", "i", "n", "g">>)),
     cwe |-> extract_cwe_from_codeql(r),
     owasp |-> map_to_owasp(Get(r.ruleId, <<"U", "n", "k", "n", "o", "w", "n">>))]

\* Lines 178-190
SemgrepRecord(r) ==
    [tool |-> "Semgrep", type |-> "SAST",
     title |-> Get(r.check_id, <<"U", "n", "k", "n", "o", "w", "n">>),
     severity |-> Upper(Get(r.severity, SevMedium)),
     cwe |-> extract_cwe(Get(r.check_id, <<>>)),
     owasp |-> map_to_owasp(Get(r.check_id, <<>>))]

\* Lines 200-212
NodejsscanRecord(r) ==
    [tool |-> "NodeJsScan", type |-> "SAST",
     title |-> Get(r.title, r.category),
     severity |-> Upper(Get(r.severity, SevMedium)),
     cwe |-> Lookup(CWE_MAPPING, r.category, CweUnknown),
     owasp |-> map_to_owasp(r.category)]

\* Lines 221-233; issue_cwe.id is a JSON number, written here by its digits
BanditRecord(r) ==
    [tool |-> "Bandit", type |-> "SAST",
     title |-> Get(r.test_name, <<"U", "n", "k", "n", "o", "w", "n">>),
     severity |-> Upper(Get(r.issue_severity, SevMedium)),
     cwe |-> Get(r.issue_cwe_id, <<>>),
     owasp |-> map_to_owasp(Get(r.test_name, <<>>))]

\* Lines 242-254
NpmAuditRecord(r) ==
    [tool |-> "npm audit", type |-> "SCA",
     title |-> Get(r.name, r.vuln_id),
     severity |-> Upper(Get(r.severity, <<"m", "e", "d", "i", "u", "m">>)),
     cwe |-> <<>>,
     owasp |-> OwaspVulnerableComponents]

RECURSIVE JoinWith(_, _)
\* sep.join(parts)
JoinWith(parts, sep) ==
    IF parts = <<>> THEN <<>>
    ELSE IF Len(parts) = 1 THEN parts[1]
    ELSE parts[1] \o sep \o JoinWith(Tail(parts), sep)

\* text[:200]
First200(text) == IF Len(text) > 200 THEN SubSeq(text, 1, 200) ELSE text

\* Lines 270-284; cwe_list is identifiers.CWE (None: no identifiers),
\* project is the projectName of the project the vulnerability is in.
SnykRecord(r) ==
    [tool |-> "Snyk", type |-> "SCA",
     title |-> Get(r.title, Get(r.id, <<>>)),
     severity |-> Upper(Get(r.severity, <<"m", "e", "d", "i", "u", "m">>)),
     description |-> First200(Get(r.description, <<>>)),
     fixed_in |-> Get(r.fixedIn, <<>>),
     cwe |-> IF r.cwe_list = None THEN <<>> ELSE r.cwe_list[1],
     owasp |-> OwaspVulnerableComponents,
     recommendation |-> IF Get(r.fixedIn, <<>>) # <<>>
                        THEN <<"U", "p", "g", "r", "a", "d", "e", " ", "t", "o", " ">> \o JoinWith(r.fixedIn, <<",", " ">>)
                        ELSE <<"R", "e", "v", "i", "e", "w", " ", "S", "n", "y", "k", " ", "r", "e", "c", "o", "m", "m", "e", "n", "d", "a", "t", "i", "o", "n", "s">>,
     project |-> r.project]

\* Lines 294-306
ZapJsonRecord(r) ==
    [tool |-> "OWASP ZAP", type |-> "DAST",
     title |-> Get(r.name, <<"U", "n", "k", "n", "o", "w", "n">>),
     severity |-> map_zap_risk(Get(r.riskcode, <<"0">>)),
     cwe |-> CwePrefix \o Get(r.cweid, <<"U", "n", "k", "n", "o", "w", "n">>),
     owasp |-> map_to_owasp(Get(r.name, <<>>))]

\* The text of an element without content: Python's None.
NoText == <<"<notext>">>

\* alert.find(child).text if alert.find(child) is not None else default;
\* the child is absent when the alert has no such field or holds None there.
ChildText(alert, child, default) ==
    IF child \in DOMAIN alert THEN Get(alert[child], default) ELSE default

\* ZapXmlRecord with an empty title for an alert without a name element.
ZapXmlRecordEmptyTitle(r) ==
    [tool |-> "OWASP ZAP", type |-> "DAST",
     title |-> ChildText(r, "name", <<>>),
     severity |-> map_zap_risk(ChildText(r, "riskcode", <<"0">>)),
     description |-> ChildText(r, "desc", <<>>),
     url |-> ChildText(r, "uri", <<>>),
     cwe |-> CwePrefix \o ChildText(r, "cweid", <<"U", "n", "k", "n", "o", "w", "n">>),
     owasp |-> map_to_owasp(ChildText(r, "name", <<>>)),
     recommendation |-> ChildText(r, "solution", <<>>)]

\* Lines 316-326
ZapXmlRecord(r) ==
    [tool |-> "OWASP ZAP", type |-> "DAST",
     title |-> ChildText(r, "name", <<"U", "n", "k", "n", "o", "w", "n">>),
     severity |-> map_zap_risk(ChildText(r, "riskcode", <<"0">>)),
     description |-> ChildText(r, "desc", <<>>),
     url |-> ChildText(r, "uri", <<>>),
     cwe |-> LET cweid == ChildText(r, "cweid", <<"U", "n", "k", "n", "o", "w", "n">>) IN
             CwePrefix \o (IF cweid = NoText THEN <<"N", "o", "n", "e">> ELSE cweid),
     owasp |-> map_to_owasp(ChildText(r, "name", <<>>)),
     recommendation |-> ChildText(r, "solution", <<>>)]

\* Whether building the record of finding r raises: an entry that is not an
\* object; for Snyk also an empty identifiers.CWE list (IndexError at [0]);
\* for ZAP XML a name element without text (None.lower() in _map_to_owasp).
RaisesOn(kind, r) ==
    \/ ~r.isdict
    \/ kind = "snyk" /\ r.cwe_list = <<>>
    \/ kind = "zap_xml" /\ ChildText(r, "name", <<>>) = NoText

RecordOf(kind, r) ==
    CASE kind = "codeql" -> CodeqlRecord(r)
      [] kind = "semgrep" -> SemgrepRecord(r)
      [] kind = "nodejsscan" -> NodejsscanRecord(r)
      [] kind = "bandit" -> BanditRecord(r)
      [] kind = "npm_audit" -> NpmAuditRecord(r)
      [] kind = "snyk" -> SnykRecord(r)
      [] kind = "zap_json" -> ZapJsonRecord(r)
      [] OTHER -> ZapXmlRecord(r)

\* Lines 89-90: a SARIF result without locations is skipped.
Skipped(kind, r) == kind = "codeql" /\ r.isdict /\ ~r.has_location

\* SnykProjects that takes the top level for a list in every case: the
\* iteration over a single project object yields its keys, which are not
\* projects.
SnykProjectsListOnly(data) ==
    IF data.t = "arr" THEN data.v ELSE <<[isdict |-> FALSE]>>

\* Line 263: projects = data if isinstance(data, list) else [data]
SnykProjects(data) == IF data.t = "arr" THEN data.v ELSE <<data>>

RECURSIVE SnykVulnerabilities(_)
\* Lines 265-269: the vulnerabilities of the projects, in order, each with
\* the name of its project; an entry that is not an object stays as it is.
SnykVulnerabilities(projects) ==
    IF projects = <<>> THEN <<>>
    ELSE LET project == Head(projects) IN
         IF ~project.isdict THEN <<project>> \o SnykVulnerabilities(Tail(projects))
         ELSE LET project_name == Get(project.projectName, <<"u", "n", "k", "n", "o", "w", "n">>)
                  vulnerabilities_ == project.vulnerabilities
              IN  [k \in 1..Len(vulnerabilities_) |->
                      vulnerabilities_[k] @@ [project |-> project_name]]
                  \o SnykVulnerabilities(Tail(projects))

\* The entries an extractor loops over: for Snyk those of all projects.
Findings(kind, content) ==
    IF kind = "snyk" THEN SnykVulnerabilities(SnykProjects(content.data))
    ELSE content.findings

\* The body of one extractor run on a file's content: the findings are
\* taken in order and each record is appended at once, so the records of
\* the findings that precede the first failing one stay appended.
Extract(kind, content) ==
    IF ~content.valid THEN [records |-> <<>>, raised |-> TRUE]
    ELSE
      LET fs == Findings(kind, content)
          bad == {k \in 1..Len(fs) : RaisesOn(kind, fs[k])}
          n == IF bad = {} THEN Len(fs)
               ELSE (CHOOSE k \in bad : \A j \in bad : k <= j) - 1
          Keep(r) == ~Skipped(kind, r)
          kept == SelectSeq(SubSeq(fs, 1, n), Keep)
      IN  [records |-> [k \in 1..Len(kept) |-> RecordOf(kind, kept[k])],
           raised |-> bad # {}]

(***************************************************************************)
(* The report files a directory may hold.  Every finding record carries    *)
(* isdict; the other fields are the ones its extractor reads.              *)
(***************************************************************************)
ValidReport(findings) == [valid |-> TRUE, findings |-> findings]

\* A Snyk report: data is one project object or an array of them.
SnykReport(data) == [valid |-> TRUE, data |-> data]

SnykProject(projectName, vulnerabilities_) ==
    [isdict |-> TRUE, t |-> "obj", projectName |-> projectName,
     vulnerabilities |-> vulnerabilities_]

SnykArray(projects) == [isdict |-> FALSE, t |-> "arr", v |-> projects]

InvalidReport == [valid |-> FALSE, findings |-> <<>>]

NotAnObject == [isdict |-> FALSE]

CodeqlFindings ==
    << [isdict |-> TRUE, has_location |-> TRUE, ruleId |-> <<"j", "s", "/", "s", "q", "l", "-", "i", "n", "j", "e", "c", "t", "i", "o", "n">>,
        level |-> <<"e", "r", "r", "o", "r">>, tags |-> <<<<"s", "e", "c", "u", "r", "i", "t", "y">>, <<"e", "x", "t", "e", "r", "n", "a", "l", "/", "c", "w", "e", "/", "c", "w", "e", "-", "0", "8", "9">>>>,
        rule_tags |-> <<>>],
       [isdict |-> TRUE, has_location |-> FALSE, ruleId |-> <<"j", "s", "/", "u", "n", "u", "s", "e", "d">>,
        level |-> <<"n", "o", "t", "e">>, tags |-> <<>>, rule_tags |-> <<>>],
       [isdict |-> TRUE, has_location |-> TRUE, ruleId |-> <<"j", "s", "/", "x", "x", "e">>,
        level |-> None, tags |-> <<<<"c", "w", "e">>>>, rule_tags |-> <<<<"C", "W", "E", "-", "6", "1", "1">>>>],
       [isdict |-> TRUE, has_location |-> TRUE, ruleId |-> <<"j", "s", "/", "p", "a", "t", "h", "-", "a", "c", "c", "e", "s", "s">>,
        level |-> <<"w", "a", "r", "n", "i", "n", "g">>, tags |-> <<<<"c", "o", "r", "r", "e", "c", "t", "n", "e", "s", "s">>, <<"C", "W", "E", "2", "2">>, <<"c", "w", "e", "-", "7", "3">>>>,
        rule_tags |-> <<<<"e", "x", "t", "e", "r", "n", "a", "l", "/", "c", "w", "e", "/", "c", "w", "e", "-", "0", "3", "6">>>>],
       [isdict |-> TRUE, has_location |-> TRUE, ruleId |-> <<"j", "s", "/", "u", "n", "s", "a", "f", "e", "-", "c", "o", "d", "e">>,
        level |-> <<"n", "o", "n", "e">>, tags |-> <<<<"m", "a", "i", "n", "t", "a", "i", "n", "a", "b", "i", "l", "i", "t", "y">>>>, rule_tags |-> <<<<"c", "w", "e", "-">>>>] >>

SemgrepFindings ==
    << [isdict |-> TRUE, check_id |-> <<"r", "u", "l", "e", "s", ".", "o", "u", "t", "d", "a", "t", "e", "d", "-", "c", "o", "m", "p", "o", "n", "e", "n", "t">>,
        severity |-> <<"E", "R", "R", "O", "R">>],
       [isdict |-> TRUE, check_id |-> <<"r", "u", "l", "e", "s", ".", "c", "w", "e", "-", "7", "9", ".", "x", "s", "s">>, severity |-> None] >>

NodejsscanFindings ==
    << [isdict |-> TRUE, category |-> <<"S", "Q", "L", " ", "I", "n", "j", "e", "c", "t", "i", "o", "n">>, title |-> None,
        severity |-> <<"w", "a", "r", "n", "i", "n", "g">>] >>

BanditFindings ==
    << [isdict |-> TRUE, test_name |-> <<"h", "a", "r", "d", "c", "o", "d", "e", "d", "_", "s", "q", "l", "_", "e", "x", "p", "r", "e", "s", "s", "i", "o", "n", "s">>,
        issue_severity |-> <<"M", "E", "D", "I", "U", "M">>, issue_cwe_id |-> <<"8", "9">>],
       [isdict |-> TRUE, test_name |-> <<"b", "l", "a", "c", "k", "l", "i", "s", "t">>,
        issue_severity |-> <<"L", "O", "W">>, issue_cwe_id |-> None] >>

NpmAuditFindings ==
    << [isdict |-> TRUE, vuln_id |-> <<"l", "o", "d", "a", "s", "h">>, name |-> <<"l", "o", "d", "a", "s", "h">>,
        severity |-> <<"m", "o", "d", "e", "r", "a", "t", "e">>],
       [isdict |-> TRUE, vuln_id |-> <<"m", "i", "n", "i", "m", "i", "s", "t">>, name |-> None,
        severity |-> <<"c", "r", "i", "t", "i", "c", "a", "l">>] >>

SnykFindings ==
    << [isdict |-> TRUE, title |-> <<"P", "r", "o", "t", "o", "t", "y", "p", "e", " ", "P", "o", "l", "l", "u", "t", "i", "o", "n">>, id |-> <<"S", "N", "Y", "K", "-", "J", "S", "-", "1">>,
        severity |-> <<"h", "i", "g", "h">>, cwe_list |-> <<<<"C", "W", "E", "-", "1", "3", "2", "1">>>>,
        description |-> [k \in 1..250 |-> "d"], fixedIn |-> <<<<"4", ".", "1", "7", ".", "2", "1">>, <<"5", ".", "0", ".", "0">>>>],
       [isdict |-> TRUE, title |-> None, id |-> <<"S", "N", "Y", "K", "-", "J", "S", "-", "2">>,
        severity |-> None, cwe_list |-> None, description |-> None, fixedIn |-> None] >>

\* a second project, without a name
SnykOtherFindings ==
    << [isdict |-> TRUE, title |-> <<"D", "e", "n", "i", "a", "l", " ", "o", "f", " ", "S", "e", "r", "v", "i", "c", "e">>, id |-> <<"S", "N", "Y", "K", "-", "P", "Y", "-", "7">>,
        severity |-> <<"m", "e", "d", "i", "u", "m">>, cwe_list |-> <<<<"C", "W", "E", "-", "4", "0", "0">>, <<"C", "W", "E", "-", "2", "0">>>>,
        description |-> <<"C", "r", "a", "f", "t", "e", "d", " ", "i", "n", "p", "u", "t", " ", "e", "x", "h", "a", "u", "s", "t", "s", " ", "m", "e", "m", "o", "r", "y">>, fixedIn |-> <<>>] >>

\* the second vulnerability has "identifiers": {"CWE": []}
SnykPartialFindings ==
    << SnykFindings[1],
       [isdict |-> TRUE, title |-> <<"R", "e", "D", "o", "S">>, id |-> <<"S", "N", "Y", "K", "-", "J", "S", "-", "3">>,
        severity |-> <<"l", "o", "w">>, cwe_list |-> <<>>, description |-> None, fixedIn |-> None],
       SnykFindings[2] >>

ZapJsonFindings ==
    << [isdict |-> TRUE, name |-> <<"S", "Q", "L", " ", "I", "n", "j", "e", "c", "t", "i", "o", "n">>, riskcode |-> <<"3">>,
        cweid |-> <<"8", "9">>],
       [isdict |-> TRUE, name |-> <<"X", "-", "F", "r", "a", "m", "e", "-", "O", "p", "t", "i", "o", "n", "s", " ", "H", "e", "a", "d", "e", "r", " ", "N", "o", "t", " ", "S", "e", "t">>,
        riskcode |-> <<"9">>, cweid |-> <<"-", "1">>],
       [isdict |-> TRUE, name |-> <<"X", "X", "E", " ", "I", "n", "j", "e", "c", "t", "i", "o", "n">>, riskcode |-> <<"2">>, cweid |-> <<"6", "1", "1">>],
       [isdict |-> TRUE, name |-> <<"O", "b", "s", "c", "u", "r", "e", " ", "U", "n", "k", "n", "o", "w", "n", " ", "I", "s", "s", "u", "e">>, riskcode |-> <<"1">>, cweid |-> None],
       [isdict |-> TRUE, name |-> <<"S", "e", "s", "s", "i", "o", "n", " ", "F", "i", "x", "a", "t", "i", "o", "n">>, riskcode |-> <<"0">>, cweid |-> <<"3", "8", "4">>],
       [isdict |-> TRUE, name |-> <<"C", "o", "o", "k", "i", "e", " ", "W", "i", "t", "h", "o", "u", "t", " ", "S", "e", "c", "u", "r", "e", " ", "F", "l", "a", "g">>, riskcode |-> None, cweid |-> <<"6", "1", "4">>] >>

ZapXmlFindings ==
    << [isdict |-> TRUE, name |-> <<"C", "r", "o", "s", "s", " ", "S", "i", "t", "e", " ", "S", "c", "r", "i", "p", "t", "i", "n", "g">>, riskcode |-> <<"2">>,
        cweid |-> <<"7", "9">>],
       [isdict |-> TRUE, name |-> None, riskcode |-> None, cweid |-> None],
       [isdict |-> TRUE, name |-> <<"R", "e", "m", "o", "t", "e", " ", "X", "X", "E", " ", "a", "n", "d", " ", "S", "Q", "L", " ", "A", "c", "c", "e", "s", "s">>, riskcode |-> <<"3">>, cweid |-> <<"6", "1", "1">>],
       [isdict |-> TRUE, name |-> <<"D", "i", "r", "e", "c", "t", "o", "r", "y", " ", "B", "r", "o", "w", "s", "i", "n", "g">>, riskcode |-> <<"1">>, cweid |-> <<"5", "4", "8">>],
       [isdict |-> TRUE, name |-> <<"T", "i", "m", "e", "s", "t", "a", "m", "p", " ", "D", "i", "s", "c", "l", "o", "s", "u", "r", "e">>, riskcode |-> <<"0">>, cweid |-> <<"2", "0", "0">>],
       [isdict |-> TRUE, name |-> <<"P", "r", "i", "v", "a", "t", "e", " ", "I", "P", " ", "D", "i", "s", "c", "l", "o", "s", "u", "r", "e">>, riskcode |-> <<"9">>, cweid |-> <<"2", "0", "0">>] >>

\* The child elements of an alertitem that the extractor reads
ZapXmlChildren == <<"name", "riskcode", "desc", "uri", "cweid", "solution">>

\* An alertitem with all six children
ZapXmlFullAlert ==
    [isdict |-> TRUE, name |-> <<"S", "Q", "L", " ", "I", "n", "j", "e", "c", "t", "i", "o", "n">>, riskcode |-> <<"3">>,
     desc |-> <<"T", "h", "e", " ", "q", "u", "e", "r", "y", " ", "i", "s", " ", "b", "u", "i", "l", "t", " ", "f", "r", "o", "m", " ", "u", "s", "e", "r", " ", "i", "n", "p", "u", "t">>,
     uri |-> <<"h", "t", "t", "p", ":", "/", "/", "a", "p", "p", "/", "l", "o", "g", "i", "n">>, cweid |-> <<"8", "9">>,
     solution |-> <<"U", "s", "e", " ", "p", "r", "e", "p", "a", "r", "e", "d", " ", "s", "t", "a", "t", "e", "m", "e", "n", "t", "s">>]

\* The alertitem lacking the children whose bit is set in n
ZapXmlAlertLacking(n) ==
    LET present == {ZapXmlChildren[b] :
                        b \in {c \in 1..6 : (n \div (2 ^ (c - 1))) % 2 = 0}}
    IN  [f \in present \cup {"isdict"} |-> ZapXmlFullAlert[f]]

\* One alertitem for every subset of the six children, sixteen to a report
ZapXmlSubsetFindings(part) ==
    [k \in 1..16 |-> ZapXmlAlertLacking(16 * part + k - 1)]

\* An alertitem whose name element is there and empty, after a complete one
ZapXmlEmptyNameFindings ==
    << ZapXmlFullAlert,
       [isdict |-> TRUE, name |-> NoText, riskcode |-> NoText, cweid |-> NoText] >>

\* File names and contents; a directory lists some of them, in any order.
Pool ==
    << [name |-> <<"c", "o", "d", "e", "q", "l", ".", "s", "a", "r", "i", "f">>, content |-> ValidReport(CodeqlFindings)],
       [name |-> <<"s", "e", "m", "g", "r", "e", "p", ".", "j", "s", "o", "n">>, content |-> ValidReport(SemgrepFindings)],
       [name |-> <<"n", "o", "d", "e", "j", "s", "s", "c", "a", "n", ".", "j", "s", "o", "n">>, content |-> ValidReport(NodejsscanFindings)],
       [name |-> <<"b", "a", "n", "d", "i", "t", ".", "j", "s", "o", "n">>, content |-> ValidReport(BanditFindings)],
       [name |-> <<"n", "p", "m", "_", "a", "u", "d", "i", "t", ".", "j", "s", "o", "n">>, content |-> ValidReport(NpmAuditFindings)],
       [name |-> <<"s", "n", "y", "k", ".", "j", "s", "o", "n">>, content |-> SnykReport(SnykProject(<<"w", "e", "b">>, SnykFindings))],
       [name |-> <<"z", "a", "p", ".", "j", "s", "o", "n">>, content |-> ValidReport(ZapJsonFindings)],
       [name |-> <<"z", "a", "p", ".", "x", "m", "l">>, content |-> ValidReport(ZapXmlFindings)],
       [name |-> <<"o", "l", "d", "_", "s", "e", "m", "g", "r", "e", "p", ".", "j", "s", "o", "n">>, content |-> InvalidReport],
       [name |-> <<"z", "a", "p", "_", "s", "n", "y", "k", "_", "a", "l", "l", ".", "j", "s", "o", "n">>, content |-> SnykReport(SnykProject(<<"a", "l", "l">>, SnykPartialFindings))],
       [name |-> <<"s", "e", "m", "g", "r", "e", "p", "_", "c", "o", "d", "e", "q", "l", ".", "s", "a", "r", "i", "f">>,
        content |-> ValidReport(<<CodeqlFindings[1], NotAnObject, CodeqlFindings[3]>>)],
       [name |-> <<"s", "n", "y", "k", "_", "b", "a", "n", "d", "i", "t", ".", "j", "s", "o", "n">>, content |-> ValidReport(BanditFindings)],
       [name |-> <<"B", "a", "n", "d", "i", "t", ".", "j", "s", "o", "n">>, content |-> InvalidReport],
       [name |-> <<"c", "o", "d", "e", "q", "l", ".", "j", "s", "o", "n">>, content |-> ValidReport(CodeqlFindings)],
       [name |-> <<"z", "a", "p", ".", "h", "t", "m", "l">>, content |-> InvalidReport],
       [name |-> <<"s", "n", "y", "k", "_", "a", "r", "r", "a", "y", ".", "j", "s", "o", "n">>,
        content |-> SnykReport(SnykArray(<<SnykProject(<<"w", "e", "b">>, SnykFindings)>>))],
       [name |-> <<"s", "n", "y", "k", "_", "m", "u", "l", "t", "i", ".", "j", "s", "o", "n">>,
        content |-> SnykReport(SnykArray(<<SnykProject(None, SnykOtherFindings),
                                          SnykProject(<<"w", "e", "b">>, SnykFindings)>>))],
       [name |-> <<"z", "a", "p", "_", "s", "u", "b", "s", "e", "t", "s", "_", "0", ".", "x", "m", "l">>, content |-> ValidReport(ZapXmlSubsetFindings(0))],
       [name |-> <<"z", "a", "p", "_", "s", "u", "b", "s", "e", "t", "s", "_", "1", ".", "x", "m", "l">>, content |-> ValidReport(ZapXmlSubsetFindings(1))],
       [name |-> <<"z", "a", "p", "_", "s", "u", "b", "s", "e", "t", "s", "_", "2", ".", "x", "m", "l">>, content |-> ValidReport(ZapXmlSubsetFindings(2))],
       [name |-> <<"z", "a", "p", "_", "s", "u", "b", "s", "e", "t", "s", "_", "3", ".", "x", "m", "l">>, content |-> ValidReport(ZapXmlSubsetFindings(3))],
       [name |-> <<"z", "a", "p", "_", "e", "m", "p", "t", "y", ".", "x", "m", "l">>, content |-> ValidReport(ZapXmlEmptyNameFindings)] >>

MaxFiles == 2

\* The listings input_dir.glob("*") can return: distinct files, any order.
Listings ==
    UNION {{l \in [1..n -> 1..Len(Pool)] :
               \A a, b \in 1..n : a # b => l[a] # l[b]} : n \in 0..MaxFiles}

\* Path.suffix: from the last dot of the name (none when the name has no
\* dot after its first character).
Suffix(name) ==
    LET dots == {k \in 2..Len(name) : name[k] = "."} IN
    IF dots = {} THEN <<>>
    ELSE SubSeq(name, CHOOSE k \in dots : \A j \in dots : k >= j, Len(name))

\* Route with the first test on the name alone, without the .sarif suffix.
RouteByNameOnly(name) ==
    IF Contains(name, <<"c", "o", "d", "e", "q", "l">>) THEN "codeql"
    ELSE IF Contains(name, <<"s", "e", "m", "g", "r", "e", "p">>) THEN "semgrep"
    ELSE IF Contains(name, <<"n", "o", "d", "e", "j", "s", "s", "c", "a", "n">>) THEN "nodejsscan"
    ELSE IF Contains(name, <<"b", "a", "n", "d", "i", "t">>) THEN "bandit"
    ELSE IF Contains(name, <<"n", "p", "m", "_", "a", "u", "d", "i", "t">>) THEN "npm_audit"
    ELSE IF Contains(name, <<"s", "n", "y", "k">>) THEN "snyk"
    ELSE IF Contains(name, <<"z", "a", "p">>) THEN
        IF Suffix(name) = <<".", "j", "s", "o", "n">> THEN "zap_json"
        ELSE IF Suffix(name) = <<".", "x", "m", "l">> THEN "zap_xml"
        ELSE "none"
    ELSE "none"

\* Route with the keywords looked for in the lowercased name.
RouteIgnoreCase(name) ==
    LET low == Lower(name) IN
    IF Contains(low, <<"c", "o", "d", "e", "q", "l">>) /\ Suffix(name) = <<".", "s", "a", "r", "i", "f">> THEN "codeql"
    ELSE IF Contains(low, <<"s", "e", "m", "g", "r", "e", "p">>) THEN "semgrep"
    ELSE IF Contains(low, <<"n", "o", "d", "e", "j", "s", "s", "c", "a", "n">>) THEN "nodejsscan"
    ELSE IF Contains(low, <<"b", "a", "n", "d", "i", "t">>) THEN "bandit"
    ELSE IF Contains(low, <<"n", "p", "m", "_", "a", "u", "d", "i", "t">>) THEN "npm_audit"
    ELSE IF Contains(low, <<"s", "n", "y", "k">>) THEN "snyk"
    ELSE IF Contains(low, <<"z", "a", "p">>) THEN
        IF Suffix(name) = <<".", "j", "s", "o", "n">> THEN "zap_json"
        ELSE IF Suffix(name) = <<".", "x", "m", "l">> THEN "zap_xml"
        ELSE "none"
    ELSE "none"

\* Lines 54-70: the branch of the if/elif chain a file name takes.
Route(name) ==
    IF Contains(name, <<"c", "o", "d", "e", "q", "l">>) /\ Suffix(name) = <<".", "s", "a", "r", "i", "f">> THEN "codeql"
    ELSE IF Contains(name, <<"s", "e", "m", "g", "r", "e", "p">>) THEN "semgrep"
    ELSE IF Contains(name, <<"n", "o", "d", "e", "j", "s", "s", "c", "a", "n">>) THEN "nodejsscan"
    ELSE IF Contains(name, <<"b", "a", "n", "d", "i", "t">>) THEN "bandit"
    ELSE IF Contains(name, <<"n", "p", "m", "_", "a", "u", "d", "i", "t">>) THEN "npm_audit"
    ELSE IF Contains(name, <<"s", "n", "y", "k">>) THEN "snyk"
    ELSE IF Contains(name, <<"z", "a", "p">>) THEN
        IF Suffix(name) = <<".", "j", "s", "o", "n">> THEN "zap_json"
        ELSE IF Suffix(name) = <<".", "x", "m", "l">> THEN "zap_xml"
        ELSE "none"
    ELSE "none"

\* CountFold with counts[key] = 1 in place of the increment.
CountFoldOverwrite(vs, field, counts) ==
    LET keys == {vs[k][field] : k \in DOMAIN vs}
    IN  [key \in keys \cup DOMAIN counts |->
            IF key \in keys THEN 1 ELSE counts[key]]

\* Lines 392-414: counts[key] = counts.get(key, 0) + 1 over the records;
\* what the loop leaves in counts: every key of the records, with the count
\* it had before plus the number of records that have it.
CountFold(vs, field, counts) ==
    LET keys == {vs[k][field] : k \in DOMAIN vs}
        old(key) == IF key \in DOMAIN counts THEN counts[key] ELSE 0
    IN  [key \in keys \cup DOMAIN counts |->
            old(key) + Cardinality({k \in DOMAIN vs : vs[k][field] = key})]

count_by(vs, field) == CountFold(vs, field, <<>>)

(***************************************************************************)
(* main: parse_all over the listing, then save_results.                    *)
(***************************************************************************)
VARIABLES
    input_dir,        \* "present" or "absent": whether the directory exists
    listing,          \* what glob("*") returns, as indices into Pool
    pos,              \* the file the for loop is at
    vulnerabilities,  \* self.vulnerabilities
    error_log,        \* number of logger.error calls
    ppc,              \* "parse", "save" or "saved"
    output            \* the document written to output_file

repVars == <<input_dir, listing, pos, vulnerabilities, error_log, ppc, output>>

(***************************************************************************)
(* run-all-generations.py: runs of main that share the progress file.      *)
(***************************************************************************)
\* Lines 32-41
EVALUATION_MODELS ==
    << "openai/gpt-5-mini", "openai/gpt-5-nano", "openai/gpt-oss-120b",
       "x-ai/grok-4-fast", "minimax/minimax-m2",
       "meta-llama/llama-3.3-70b-instruct", "z-ai/glm-4.6",
       "google/gemini-2.5-flash" >>

\* Line 44
REFERENCE_MODEL == "openai/gpt-5"

\* How many times main is started
MaxRuns == 3

VARIABLES
    progress_file,    \* generation_progress.json: absent, unreadable or a document
    progress,         \* main's progress dictionary
    rpc,              \* where main is; "idle" between two runs
    models_to_run,    \* main's list of the same name
    model_idx,        \* the position of the for loop in models_to_run
    run_result,       \* result["status"] of the last generate_single_policy
    processed,        \* the models generate_single_policy was ever called on
    runs              \* how many times main was started

runVars == <<progress_file, progress, rpc, models_to_run, model_idx,
             run_result, processed, runs>>

vars == <<recVars, repVars, runVars>>

\* Lines 56-61
DefaultProgress ==
    [reference_generated |-> FALSE, completed_models |-> <<>>,
     failed_models |-> <<>>]

NoProgressFile == [state |-> "absent", data |-> DefaultProgress]

\* A progress file cut short: open(progress_file, 'w') has emptied it and
\* json.dump has not finished
UnreadableFile == [state |-> "unreadable", data |-> DefaultProgress]

\* Lines 64-68
WrittenFile(p) == [state |-> "json", data |-> p]

\* Lines 116-120: the result of a failed generation
FailedResult(model_name) == [model |-> model_name, status |-> "failed"]

\* Line 205: set(progress.get("completed_models", []))
CompletedSet(p) == {p.completed_models[k] : k \in DOMAIN p.completed_models}

\* Line 206: {m["model"] for m in progress.get("failed_models", [])}
FailedSet(p) == {p.failed_models[k].model : k \in DOMAIN p.failed_models}

\* ModelsToRun that filters the completed models only
ModelsToRunRetryFailed(p) ==
    LET Todo(model) == model \notin CompletedSet(p)
    IN  SelectSeq(EVALUATION_MODELS, Todo)

\* Lines 208-211
ModelsToRun(p) ==
    LET Todo(model) == model \notin CompletedSet(p) /\ model \notin FailedSet(p)
    IN  SelectSeq(EVALUATION_MODELS, Todo)

\* Between two runs main's locals are gone
RunOver ==
    /\ rpc' = "idle"
    /\ progress' = DefaultProgress
    /\ models_to_run' = <<>>
    /\ model_idx' = 0
    /\ run_result' = "none"

RunInit ==
    /\ progress_file = NoProgressFile
    /\ progress = DefaultProgress
    /\ rpc = "idle"
    /\ models_to_run = <<>>
    /\ model_idx = 0
    /\ run_result = "none"
    /\ processed = {}
    /\ runs = 0

\* the runner is not in use
RunIdle ==
    /\ progress_file = NoProgressFile
    /\ progress = DefaultProgress
    /\ rpc = "off"
    /\ models_to_run = <<>>
    /\ model_idx = 0
    /\ run_result = "none"
    /\ processed = {}
    /\ runs = 0

\* Lines 142-146: main is started without OPENROUTER_API_KEY and returns 1
main_no_api_key ==
    /\ rpc = "idle"
    /\ runs < MaxRuns
    /\ runs' = runs + 1
    /\ UNCHANGED <<progress_file, progress, rpc, models_to_run, model_idx,
                   run_result, processed>>

\* Lines 142-149 with 50-61: main is started and load_progress returns the
\* document of the progress file, or the default when there is no file
main_load_progress ==
    /\ rpc = "idle"
    /\ runs < MaxRuns
    /\ progress_file.state # "unreadable"
    /\ runs' = runs + 1
    /\ progress' = progress_file.data
    /\ rpc' = "input"
    /\ UNCHANGED <<progress_file, models_to_run, model_idx, run_result, processed>>

\* Lines 149 with 53-55: json.load raises on a file that is not a document
\* and main ends with the exception
main_progress_unreadable ==
    /\ rpc = "idle"
    /\ runs < MaxRuns
    /\ progress_file.state = "unreadable"
    /\ runs' = runs + 1
    /\ UNCHANGED <<progress_file, progress, rpc, models_to_run, model_idx,
                   run_result, processed>>

\* Lines 157-165: the input data is loaded
load_input ==
    /\ rpc = "input"
    /\ rpc' = "reference"
    /\ UNCHANGED <<progress_file, progress, models_to_run, model_idx,
                   run_result, processed, runs>>

\* Lines 166-168: loading the input data fails and main returns 1
load_input_fails ==
    /\ rpc = "input"
    /\ RunOver
    /\ UNCHANGED <<progress_file, processed, runs>>

\* Lines 171, 197-198: the reference policies are there already
reference_already_generated ==
    /\ rpc = "reference"
    /\ progress.reference_generated
    /\ rpc' = "filter"
    /\ UNCHANGED <<progress_file, progress, models_to_run, model_idx,
                   run_result, processed, runs>>

\* Lines 171-189, 192-194: the reference model is run and its result is put
\* into progress
generate_reference ==
    /\ rpc = "reference"
    /\ ~progress.reference_generated
    /\ \E status \in {"success", "failed"} :
          /\ run_result' = status
          /\ progress' =
                IF status = "success"
                THEN [progress EXCEPT !.reference_generated = TRUE]
                ELSE [progress EXCEPT !.failed_models =
                          Append(@, FailedResult(REFERENCE_MODEL))]
    /\ rpc' = "save_reference"
    /\ UNCHANGED <<progress_file, models_to_run, model_idx, processed, runs>>

\* Lines 190-191: save_progress after the reference policies
save_reference ==
    /\ rpc = "save_reference"
    /\ run_result = "success"
    /\ progress_file' = WrittenFile(progress)
    /\ rpc' = "filter"
    /\ UNCHANGED <<progress, models_to_run, model_idx, run_result, processed, runs>>

\* Lines 195-196: save_progress after the failed reference model, return 1
save_reference_failed ==
    /\ rpc = "save_reference"
    /\ run_result = "failed"
    /\ progress_file' = WrittenFile(progress)
    /\ RunOver
    /\ UNCHANGED <<processed, runs>>

\* Lines 205-211, 219-223: some evaluation models are left to run
filter_models ==
    /\ rpc = "filter"
    /\ ModelsToRun(progress) # <<>>
    /\ models_to_run' = ModelsToRun(progress)
    /\ model_idx' = 1
    /\ rpc' = "loop"
    /\ UNCHANGED <<progress_file, progress, run_result, processed, runs>>

\* Lines 205-217: every evaluation model is completed or failed, return 0
all_processed ==
    /\ rpc = "filter"
    /\ ModelsToRun(progress) = <<>>
    /\ RunOver
    /\ UNCHANGED <<progress_file, processed, runs>>

\* Lines 223-235 with 71-120: generate_single_policy on the next model
generate_single_policy ==
    /\ rpc = "loop"
    /\ model_idx <= Len(models_to_run)
    /\ \E status \in {"success", "failed"} : run_result' = status
    /\ processed' = processed \cup {models_to_run[model_idx]}
    /\ rpc' = "record"
    /\ UNCHANGED <<progress_file, progress, models_to_run, model_idx, runs>>

\* Lines 238-241
record_result ==
    /\ rpc = "record"
    /\ progress' =
          IF run_result = "success"
          THEN [progress EXCEPT !.completed_models =
                    Append(@, models_to_run[model_idx])]
          ELSE [progress EXCEPT !.failed_models =
                    Append(@, FailedResult(models_to_run[model_idx]))]
    /\ rpc' = "save"
    /\ UNCHANGED <<progress_file, models_to_run, model_idx, run_result,
                   processed, runs>>

\* Line 243 with 64-68: save_progress after the model, then the next model
save_progress ==
    /\ rpc = "save"
    /\ progress_file' = WrittenFile(progress)
    /\ model_idx' = model_idx + 1
    /\ rpc' = "loop"
    /\ UNCHANGED <<progress, models_to_run, run_result, processed, runs>>

\* Lines 245-272: the loop is over, the summary is written, return 0
write_summary ==
    /\ rpc = "loop"
    /\ model_idx > Len(models_to_run)
    /\ RunOver
    /\ UNCHANGED <<progress_file, processed, runs>>

\* Lines 112, 275-276: a KeyboardInterrupt is no Exception, nothing catches
\* it and the run ends where it is; inside save_progress (lines 67-68) the
\* file is as it was or emptied by open(..., 'w') and not written out.
keyboard_interrupt ==
    /\ rpc \notin {"idle", "off"}
    /\ RunOver
    /\ IF rpc \in {"save_reference", "save"}
       THEN progress_file' \in {progress_file, UnreadableFile}
       ELSE progress_file' = progress_file
    /\ UNCHANGED <<processed, runs>>

RunNext ==
    \/ main_no_api_key /\ UNCHANGED <<recVars, repVars>>
    \/ main_load_progress /\ UNCHANGED <<recVars, repVars>>
    \/ main_progress_unreadable /\ UNCHANGED <<recVars, repVars>>
    \/ load_input /\ UNCHANGED <<recVars, repVars>>
    \/ load_input_fails /\ UNCHANGED <<recVars, repVars>>
    \/ reference_already_generated /\ UNCHANGED <<recVars, repVars>>
    \/ generate_reference /\ UNCHANGED <<recVars, repVars>>
    \/ save_reference /\ UNCHANGED <<recVars, repVars>>
    \/ save_reference_failed /\ UNCHANGED <<recVars, repVars>>
    \/ filter_models /\ UNCHANGED <<recVars, repVars>>
    \/ all_processed /\ UNCHANGED <<recVars, repVars>>
    \/ generate_single_policy /\ UNCHANGED <<recVars, repVars>>
    \/ record_result /\ UNCHANGED <<recVars, repVars>>
    \/ save_progress /\ UNCHANGED <<recVars, repVars>>
    \/ write_summary /\ UNCHANGED <<recVars, repVars>>
    \/ keyboard_interrupt /\ UNCHANGED <<recVars, repVars>>

NoOutput == [written |-> FALSE]

\* Line 52: input_dir.glob("*").  A directory that does not exist yields
\* nothing and raises nothing.
Glob(dir) == IF dir = "present" THEN Listings ELSE {<<>>}

\* Lines 43-46 and the first glob
RepInit ==
    /\ input_dir \in {"present", "absent"}
    /\ listing \in Glob(input_dir)
    /\ pos = 1
    /\ vulnerabilities = <<>>
    /\ error_log = 0
    /\ ppc = "parse"
    /\ output = NoOutput

report_file == Pool[listing[pos]]

\* NextPos without the try/except of lines 53 and 72: an extractor's
\* exception ends the loop.
NextPosAbort(p, raised) == IF raised THEN Len(listing) + 1 ELSE p + 1

\* Lines 52-53, 72-73: the try/except inside the loop body; whether or not
\* the extractor raised, the loop goes on to the next file.
NextPos(p, raised) == p + 1

\* Extend that leaves out a record equal to one already collected.
ExtendDedup(vs, records) ==
    LET New(r) == \A k \in DOMAIN vs : vs[k] # r
    IN  vs \o SelectSeq(records, New)

\* Extend that puts the new records before the collected ones.
ExtendFront(vs, records) == records \o vs

\* self.vulnerabilities.append(...) for each record of one extractor run,
\* in the extractor's order.
Extend(vs, records) == vs \o records

\* Route for every file of Pool
PoolRoute == [k \in DOMAIN Pool |-> Route(Pool[k].name)]

\* What the extractor a file is routed to does on the file's content
PoolExtract ==
    [k \in DOMAIN Pool |->
        IF PoolRoute[k] = "none" THEN [records |-> <<>>, raised |-> FALSE]
        ELSE Extract(PoolRoute[k], Pool[k].content)]

\* One iteration of the loop of parse_all for a file routed to `kind`.
ParseFile(kind) ==
    /\ ppc = "parse"
    /\ pos <= Len(listing)
    /\ PoolRoute[listing[pos]] = kind
    /\ LET r == PoolExtract[listing[pos]] IN
         /\ vulnerabilities' = Extend(vulnerabilities, r.records)
         /\ error_log' = error_log + (IF r.raised THEN 1 ELSE 0)
         /\ pos' = NextPos(pos, r.raised)
    /\ UNCHANGED <<input_dir, listing, ppc, output>>

\* Lines 54-55 with 77-121 (the extractor catches and logs its own errors)
ParseCodeqlSarif == ParseFile("codeql")

\* Lines 56-57
ParseSemgrep == ParseFile("semgrep")

\* Lines 58-59
ParseNodejsscan == ParseFile("nodejsscan")

\* Lines 60-61
ParseBandit == ParseFile("bandit")

\* Lines 62-63
ParseNpmAudit == ParseFile("npm_audit")

\* Lines 64-65
ParseSnyk == ParseFile("snyk")

\* Lines 66-68
ParseZapJson == ParseFile("zap_json")

\* Lines 69-70
ParseZapXml == ParseFile("zap_xml")

\* No branch of the chain matches: nothing is called, nothing is logged.
IgnoreFile ==
    /\ ppc = "parse"
    /\ pos <= Len(listing)
    /\ PoolRoute[listing[pos]] = "none"
    /\ pos' = pos + 1
    /\ UNCHANGED <<input_dir, listing, vulnerabilities, error_log, ppc, output>>

\* Line 75: the loop is over.
ParseAllEnd ==
    /\ ppc = "parse"
    /\ pos > Len(listing)
    /\ ppc' = "save"
    /\ UNCHANGED <<input_dir, listing, pos, vulnerabilities, error_log, output>>

\* Lines 373-390
save_results ==
    /\ ppc = "save"
    /\ output' = [written |-> TRUE,
                  total_vulnerabilities |-> Len(vulnerabilities),
                  by_severity |-> count_by(vulnerabilities, "severity"),
                  by_type |-> count_by(vulnerabilities, "type"),
                  by_tool |-> count_by(vulnerabilities, "tool"),
                  vulnerabilities |-> vulnerabilities]
    /\ ppc' = "saved"
    /\ UNCHANGED <<input_dir, listing, pos, vulnerabilities, error_log>>

\* The orders in which a later glob("*") can list the same files.
Reglob(l) ==
    {m \in [DOMAIN l -> {l[k] : k \in DOMAIN l}] :
        \A a, b \in DOMAIN l : a # b => m[a] # m[b]}

\* Lines 417-426: main run again on the same directory content: a new
\* parser (lines 43-46) and a new glob; the file written before is still
\* there until save_results writes it again.
main_again ==
    /\ ppc = "saved"
    /\ listing' \in Reglob(listing)
    /\ pos' = 1
    /\ vulnerabilities' = <<>>
    /\ error_log' = 0
    /\ ppc' = "parse"
    /\ UNCHANGED <<input_dir, output>>

RecNext ==
    \/ StripStep /\ UNCHANGED <<repVars, runVars>>
    \/ StrictParseOk /\ UNCHANGED <<repVars, runVars>>
    \/ StrictParseFails /\ UNCHANGED <<repVars, runVars>>
    \/ LocateFound /\ UNCHANGED <<repVars, runVars>>
    \/ LocateMissing /\ UNCHANGED <<repVars, runVars>>
    \/ ScanEscaped /\ UNCHANGED <<repVars, runVars>>
    \/ ScanBackslash /\ UNCHANGED <<repVars, runVars>>
    \/ ScanQuote /\ UNCHANGED <<repVars, runVars>>
    \/ ScanOpenBrace /\ UNCHANGED <<repVars, runVars>>
    \/ ScanCloseBrace /\ UNCHANGED <<repVars, runVars>>
    \/ ScanCloseObject /\ UNCHANGED <<repVars, runVars>>
    \/ ScanOther /\ UNCHANGED <<repVars, runVars>>
    \/ ScanEnd /\ UNCHANGED <<repVars, runVars>>
    \/ Finish /\ UNCHANGED <<repVars, runVars>>

RepNext ==
    \/ ParseCodeqlSarif /\ UNCHANGED <<recVars, runVars>>
    \/ ParseSemgrep /\ UNCHANGED <<recVars, runVars>>
    \/ ParseNodejsscan /\ UNCHANGED <<recVars, runVars>>
    \/ ParseBandit /\ UNCHANGED <<recVars, runVars>>
    \/ ParseNpmAudit /\ UNCHANGED <<recVars, runVars>>
    \/ ParseSnyk /\ UNCHANGED <<recVars, runVars>>
    \/ ParseZapJson /\ UNCHANGED <<recVars, runVars>>
    \/ ParseZapXml /\ UNCHANGED <<recVars, runVars>>
    \/ IgnoreFile /\ UNCHANGED <<recVars, runVars>>
    \/ ParseAllEnd /\ UNCHANGED <<recVars, runVars>>
    \/ save_results /\ UNCHANGED <<recVars, runVars>>
    \/ main_again /\ UNCHANGED <<recVars, runVars>>

\* parse_policy_response is not running
RecIdle ==
    /\ raw_text = <<>>
    /\ response_text = <<>>
    /\ pc = "idle"
    /\ i = 0
    /\ bracket_depth = 0
    /\ in_string = FALSE
    /\ escape_next = FALSE
    /\ current_policy = <<>>
    /\ policies_text = <<>>
    /\ strict_ok = FALSE
    /\ result = NoResult

\* the report parser is not running
RepIdle ==
    /\ input_dir = "absent"
    /\ listing = <<>>
    /\ pos = 1
    /\ vulnerabilities = <<>>
    /\ error_log = 0
    /\ ppc = "idle"
    /\ output = NoOutput

Init == RecInit /\ RepIdle /\ RunIdle

\* parse_policy_response on one response
Spec == Init /\ [][RecNext]_vars

InitReports == RepInit /\ RecIdle /\ RunIdle

\* parse_reports.main on one directory
SpecReports == InitReports /\ [][RepNext]_vars

InitRunner == RunInit /\ RecIdle /\ RepIdle

\* runs of run-all-generations.main, one after the other
SpecRunner == InitRunner /\ [][RunNext]_vars

(***************************************************************************)
(* Properties of parse_policy_response                                     *)
(***************************************************************************)
Returns == pc = "done" /\ result.kind = "returned"

ParsedAll(es) == [k \in 1..Len(es) |-> Parsed(es[k])]

\* The text cut inside element k+1 of es, after n of its characters.
CutInside(es, k, n) ==
    Header \o JoinElems(SubSeq(es, 1, k))
           \o (IF k > 0 THEN <<",">> ELSE <<>>) \o SubSeq(es[k + 1], 1, n)

\* C1: a response cut inside element k+1 of the "policies" array yields
\* exactly the k complete objects before the cut, in order, with
\* is_truncated set; the example text yields {"a":1} and {"b":2}.
C1_PartialRecovery ==
    pc = "done" =>
      /\ raw_text = CutInThird =>
            /\ Returns
            /\ result.is_truncated
            /\ result.policies.v = <<Parsed(ObjA), Parsed(ObjB)>>
      /\ \A es \in ElemSeqs : \A k \in 0..(Len(es) - 1) :
           \A n \in 1..(Len(es[k + 1]) - 1) :
             raw_text = CutInside(es, k, n) =>
                /\ Returns
                /\ result.is_truncated
                /\ result.policies.v = ParsedAll(SubSeq(es, 1, k))

\* C1 (what the code does on those texts): nothing is recovered.
C1_NothingRecovered ==
    pc = "done" /\ raw_text = CutInThird /\ Returns /\ result.is_truncated
    /\ result.policies.v = <<>>

C4_NoPartialObject ==
    (Returns /\ result.is_truncated) =>
       /\ result.policies.v = policies_text
       /\ \A k \in DOMAIN result.policies.v :
            \E a \in 1..Len(response_text) : \E b \in a..Len(response_text) :
               /\ response_text[a] = LB
               /\ response_text[b] = RB
               /\ JsonLoads(SubSeq(response_text, a, b)).ok
               /\ JsonLoads(SubSeq(response_text, a, b)).val = result.policies.v[k]

\* the text ended inside an object: its characters are in the accumulator
C4_Witness ==
    /\ Returns
    /\ result.is_truncated
    /\ bracket_depth > 0
    /\ current_policy # <<>>
    /\ i = Len(response_text) + 1

\* The positions of the closing braces of the elements of es in Document(es).
ClosePositions(es) ==
    {Len(Header) + Len(JoinElems(SubSeq(es, 1, k))) : k \in 1..Len(es)}

IsPrefix(s, d) == Len(s) <= Len(d) /\ SubSeq(d, 1, Len(s)) = s

\* C5: the depth changes only on a brace read outside a string; a brace
\* inside a string and an escaped quote inside a string change neither the
\* depth nor the in-string flag; on a (truncated) document the depth comes
\* back to zero exactly at the closing brace of each element.
C5_DepthIgnoresStrings ==
    [][ Scanning =>
          /\ bracket_depth' # bracket_depth =>
                char \in {LB, RB} /\ ~in_string /\ ~escape_next
          /\ (in_string /\ ~escape_next /\ char \in {LB, RB}) =>
                bracket_depth' = bracket_depth /\ in_string' = in_string
          /\ (in_string /\ escape_next /\ char = QT) =>
                bracket_depth' = bracket_depth /\ in_string' = in_string
          /\ \A es \in ElemSeqs : IsPrefix(response_text, Document(es)) =>
                /\ i \in ClosePositions(es) =>
                      bracket_depth = 1 /\ bracket_depth' = 0 /\ ~in_string'
                /\ (bracket_depth # 0 /\ bracket_depth' = 0) =>
                      i \in ClosePositions(es)
      ]_recVars

\* the scan has just closed {"c":"\"{\""}: depth zero at its last brace
C5_Witness ==
    /\ pc = "scan"
    /\ response_text = Header \o ObjC
    /\ i = Len(response_text) + 1
    /\ bracket_depth = 0
    /\ ~in_string

(***************************************************************************)
(* Properties of VulnerabilityParser                                       *)
(***************************************************************************)
Parsed_all == ppc \in {"save", "saved"}

Records == {vulnerabilities[j] : j \in DOMAIN vulnerabilities}

\* C6: after parse_all every record's severity is one of CRITICAL, HIGH,
\* MEDIUM, LOW, INFO, whatever the extractor and the native value.
C6_SeverityCanonical ==
    Parsed_all => \A r \in Records : r.severity \in SEVERITY_MAPPING

\* C6 (what the code does): npm audit's "moderate" is only uppercased
C6_NativeSeverityKept ==
    /\ Parsed_all
    /\ \E r \in Records : r.tool = "npm audit" /\ r.severity = <<"M", "O", "D", "E", "R", "A", "T", "E">>

\* ^CWE-(\d+|Unknown)$
IsCweValue(c) ==
    \/ c = CweUnknown
    \/ /\ StartsWith(c, CwePrefix)
       /\ Len(c) > Len(CwePrefix)
       /\ \A k \in (Len(CwePrefix) + 1)..Len(c) : c[k] \in Digits

\* C7: after parse_all every record's cwe is CWE-<digits> or CWE-Unknown.
C7_CweWellFormed ==
    Parsed_all => \A r \in Records : IsCweValue(r.cwe)

\* C7 (what the code does): npm audit records carry the empty string
C7_EmptyCwe ==
    /\ Parsed_all
    /\ \E r \in Records : r.tool = "npm audit" /\ r.cwe = <<>>

\* The category code of a label: its first three characters (A01 .. A10).
OwaspCategory(label) == SubSeq(label, 1, 3)

\* C8: every record has a non-empty owasp value and no category is written
\* with two different labels, across all extractors.
C8_OwaspOneLabelPerCategory ==
    /\ \A r \in Records : r.owasp # <<>>
    /\ \A r1, r2 \in Records :
          OwaspCategory(r1.owasp) = OwaspCategory(r2.owasp) => r1.owasp = r2.owasp

\* C8 (what the code does): A06 appears under two labels in one dataset
C8_TwoLabelsForA06 ==
    /\ Parsed_all
    /\ \E r1, r2 \in Records :
          r1.owasp = OwaspVulnerableComponents /\ r2.owasp = OwaspOutdated

RECURSIVE SumValues(_)
SumValues(f) ==
    IF DOMAIN f = {} THEN 0
    ELSE LET k == CHOOSE x \in DOMAIN f : TRUE
         IN  f[k] + SumValues([x \in DOMAIN f \ {k} |-> f[x]])

\* C9: in the saved output the three groupings add up to the total, which
\* is the length of the saved record sequence, the final collection.
C9_CountsConsistent ==
    ppc = "saved" =>
       /\ output.vulnerabilities = vulnerabilities
       /\ output.total_vulnerabilities = Len(output.vulnerabilities)
       /\ SumValues(output.by_severity) = output.total_vulnerabilities
       /\ SumValues(output.by_type) = output.total_vulnerabilities
       /\ SumValues(output.by_tool) = output.total_vulnerabilities

\* an output saved after a file failed, with two records of one tool
C9_Witness ==
    /\ ppc = "saved"
    /\ error_log > 0
    /\ \E t \in DOMAIN output.by_tool : output.by_tool[t] >= 2

\* Whether block occurs in s as a run of consecutive entries.
Occurs(block, s) ==
    \E a \in 0..(Len(s) - Len(block)) : SubSeq(s, a + 1, a + Len(block)) = block

WellFormed(f) ==
    Route(f.name) # "none" /\ ~Extract(Route(f.name), f.content).raised

\* WellFormed of every file of Pool
PoolWellFormed == [k \in DOMAIN Pool |-> WellFormed(Pool[k])]

\* C10: when parse_all is over every file of the listing has been visited
\* and the records of every well-formed recognized file are in the
\* collection, whatever files failed before or after it.
C10_FailureIsolated ==
    Parsed_all =>
       /\ pos = Len(listing) + 1
       /\ \A k \in DOMAIN listing :
            PoolWellFormed[listing[k]] =>
               Occurs(PoolExtract[listing[k]].records, vulnerabilities)

\* a malformed file came first, the well-formed one after it was parsed
C10_Witness ==
    /\ Parsed_all
    /\ Len(listing) = 2
    /\ PoolRoute[listing[1]] # "none"
    /\ ~PoolWellFormed[listing[1]]
    /\ PoolWellFormed[listing[2]]
    /\ error_log = 1
    /\ vulnerabilities # <<>>

\* C11: parsing the same directory content twice yields the same output: the
\* document a second run of main writes is the document the first run
\* wrote, with the same record sequence and the same counts.
C11_Idempotent ==
    [][(ppc = "save" /\ output.written) => output' = output]_vars

\* C11 (what the code does): the second run listed the same files in
\* another order and is about to replace the saved record sequence by a
\* different one.
C11_SecondOutputDiffers ==
    /\ ppc = "save"
    /\ output.written
    /\ Len(output.vulnerabilities) = Len(vulnerabilities)
    /\ output.vulnerabilities # vulnerabilities

\* C12: when the input directory is absent the run fails before any file is
\* parsed and before anything is written; it does not complete.
C12_AbsentDirectoryFails ==
    input_dir = "absent" => ppc \notin {"save", "saved"} /\ ~output.written

\* C12 (what the code does): the run completes and saves an empty dataset
C12_EmptyDatasetSaved ==
    /\ input_dir = "absent"
    /\ ppc = "saved"
    /\ output.written
    /\ output.total_vulnerabilities = 0
    /\ error_log = 0

\* The characters of the file names, in code point order.
NameChars ==
    <<".", "0", "1", "2", "3", "4", "5", "6", "7", "8", "9">> \o Uppers \o <<"_">> \o Lowers

Ord(c) == CHOOSE k \in 1..Len(NameChars) : NameChars[k] = c

\* a < b for two names, compared character by character
LexLess(a, b) ==
    \E k \in 1..(Len(a) + 1) :
       /\ k - 1 <= Len(b)
       /\ SubSeq(a, 1, k - 1) = SubSeq(b, 1, k - 1)
       /\ \/ k = Len(a) + 1 /\ Len(b) >= k
          \/ k <= Len(a) /\ k <= Len(b) /\ Ord(a[k]) < Ord(b[k])

\* C13: parse_all processes the files in lexicographic file name order: the
\* files visited so far were visited in increasing order of their names.
C13_LexicographicOrder ==
    ppc \in {"parse", "save", "saved"} =>
       \A a, b \in 1..(pos - 1) :
          a < b => LexLess(Pool[listing[a]].name, Pool[listing[b]].name)

\* C13 (what the code does): the listing returned zap.json before
\* bandit.json, and the records are in that order.
C13_ListingOrderKept ==
    /\ Parsed_all
    /\ Len(listing) = 2
    /\ LexLess(Pool[listing[2]].name, Pool[listing[1]].name)
    /\ vulnerabilities # <<>>
    /\ vulnerabilities[1].tool = "OWASP ZAP"
    /\ vulnerabilities[Len(vulnerabilities)].tool = "Bandit"

\* What the extractor of file f appends when it runs on f.
FileRecords(f) ==
    IF Route(f.name) = "none" THEN <<>>
    ELSE Extract(Route(f.name), f.content).records

\* FileRecords of every file of Pool
PoolRecords == [k \in DOMAIN Pool |-> FileRecords(Pool[k])]

RECURSIVE Concatenation(_, _)
\* The outputs of the first n files of listing l, one after the other.
Concatenation(l, n) ==
    IF n = 0 THEN <<>>
    ELSE Concatenation(l, n - 1) \o PoolRecords[l[n]]

\* C14: the record sequence is the concatenation, in processing order, of
\* each processed file's extractor output in the extractor's order; nothing
\* is dropped or merged, also when two files yield equal records.
C14_ConcatenationInOrder ==
    ppc \in {"parse", "save", "saved"} =>
       vulnerabilities = Concatenation(listing, pos - 1)

\* two files with the same findings: every record is there twice
C14_Witness ==
    /\ Parsed_all
    /\ Len(listing) = 2
    /\ Pool[listing[1]].content = Pool[listing[2]].content
    /\ Len(vulnerabilities) = 4
    /\ vulnerabilities[1] = vulnerabilities[3]
    /\ vulnerabilities[2] = vulnerabilities[4]
    /\ vulnerabilities[1] # vulnerabilities[2]

\* A name that matches no signature: none of the five keywords that select
\* an extractor by name alone, "codeql" only without the .sarif suffix, and
\* "zap" only with a suffix other than .json and .xml.
NoSignature(name) ==
    /\ \A kw \in {<<"s", "e", "m", "g", "r", "e", "p">>, <<"n", "o", "d", "e", "j", "s", "s", "c", "a", "n">>, <<"b", "a", "n", "d", "i", "t">>,
                  <<"n", "p", "m", "_", "a", "u", "d", "i", "t">>, <<"s", "n", "y", "k">>} : ~Contains(name, kw)
    /\ Contains(name, <<"c", "o", "d", "e", "q", "l">>) => Suffix(name) # <<".", "s", "a", "r", "i", "f">>
    /\ Contains(name, <<"z", "a", "p">>) => Suffix(name) \notin {<<".", "j", "s", "o", "n">>, <<".", "x", "m", "l">>}

\* C15: the loop step on a file whose name matches no signature changes
\* neither the record collection nor the error log nor the output; it only
\* moves on to the next file.
C15_UnknownFileIgnored ==
    [][(ppc = "parse" /\ pos <= Len(listing) /\ NoSignature(report_file.name)) =>
          /\ vulnerabilities' = vulnerabilities
          /\ error_log' = error_log
          /\ output' = output
          /\ pos' = pos + 1]_vars

\* codeql.json and zap.html were both passed over
C15_Witness ==
    /\ ppc = "parse"
    /\ pos = 3
    /\ {Pool[listing[k]].name : k \in 1..2} = {<<"c", "o", "d", "e", "q", "l", ".", "j", "s", "o", "n">>, <<"z", "a", "p", ".", "h", "t", "m", "l">>}
    /\ \A k \in 1..2 : NoSignature(Pool[listing[k]].name)
    /\ vulnerabilities = <<>>
    /\ error_log = 0

\* The severity the risk-code table gives: "3" HIGH, "2" MEDIUM, "1" LOW,
\* "0" INFO, no code INFO, any other code MEDIUM.
RiskSeverity(code) ==
    CASE code = <<"3">> -> SevHigh
      [] code = <<"2">> -> SevMedium
      [] code = <<"1">> -> SevLow
      [] code = <<"0">> -> SevInfo
      [] code = None -> SevInfo
      [] OTHER -> SevMedium

\* C16: the step that parses a ZAP report, JSON or XML, appends one record
\* per alert, whose severity is the table's value for the alert's risk code.
C16_ZapRiskMapping ==
    [][(ppc = "parse" /\ pos <= Len(listing)
          /\ PoolRoute[listing[pos]] \in {"zap_json", "zap_xml"}) =>
          LET alerts == report_file.content.findings
              n == Len(vulnerabilities)
          IN  /\ error_log' = error_log => Len(vulnerabilities') = n + Len(alerts)
              /\ \A k \in 1..(Len(vulnerabilities') - n) :
                    vulnerabilities'[n + k].severity =
                        RiskSeverity(ChildText(alerts[k], "riskcode", None))]_vars

\* a JSON and an XML report were parsed, with codes "0", "9" and none
C16_Witness ==
    /\ Parsed_all
    /\ {PoolRoute[listing[k]] : k \in DOMAIN listing} = {"zap_json", "zap_xml"}
    /\ Len(vulnerabilities) = Len(ZapJsonFindings) + Len(ZapXmlFindings)
    /\ \E k \in DOMAIN ZapJsonFindings : ZapJsonFindings[k].riskcode = None
    /\ \E k \in DOMAIN ZapXmlFindings : ZapXmlFindings[k].riskcode = <<"9">>
    /\ \E r \in Records : r.severity = SevInfo
    /\ \E r \in Records : r.severity = SevHigh

\* label is the category of the first pair of owasp_mapping whose keyword
\* is in the lowercased title, or Insecure Design when there is none.
IsFirstMatch(title, label) ==
    LET low == Lower(title) IN
    \/ \E k \in DOMAIN owasp_mapping :
          /\ Contains(low, owasp_mapping[k][1])
          /\ \A j \in 1..(k - 1) : ~Contains(low, owasp_mapping[j][1])
          /\ label = owasp_mapping[k][2]
    \/ /\ \A k \in DOMAIN owasp_mapping : ~Contains(low, owasp_mapping[k][1])
       /\ label = OwaspInsecureDesign

\* The titles of the records that the files of Pool give
PoolTitles ==
    UNION {{PoolRecords[k][j].title : j \in DOMAIN PoolRecords[k]} : k \in DOMAIN Pool}

\* For each of these titles the one label that is its first match
FirstMatchLabel ==
    [t \in PoolTitles |->
        CHOOSE label \in {owasp_mapping[k][2] : k \in DOMAIN owasp_mapping}
                             \cup {OwaspInsecureDesign} :
            IsFirstMatch(t, label)]

\* C17: when parse_all is over, the owasp value of every record of an
\* extractor that infers it from the title is the first match of the table; a title with "injection" and
\* "xxe" gives Injection, "Obscure Unknown Issue" gives Insecure Design.
C17_OwaspFirstMatch ==
    ppc = "save" => \A r \in Records :
       r.tool \in {"CodeQL", "Semgrep", "Bandit", "OWASP ZAP"} =>
          /\ r.owasp = FirstMatchLabel[r.title]
          /\ (Contains(Lower(r.title), <<"i", "n", "j", "e", "c", "t", "i", "o", "n">>) /\ Contains(Lower(r.title), <<"x", "x", "e">>))
                => r.owasp = OwaspInjection
          /\ r.title = <<"O", "b", "s", "c", "u", "r", "e", " ", "U", "n", "k", "n", "o", "w", "n", " ", "I", "s", "s", "u", "e">> => r.owasp = OwaspInsecureDesign

\* both titles of the claim were mapped
C17_Witness ==
    /\ Parsed_all
    /\ \E r \in Records : r.title = <<"X", "X", "E", " ", "I", "n", "j", "e", "c", "t", "i", "o", "n">> /\ r.owasp = OwaspInjection
    /\ \E r \in Records : r.title = <<"O", "b", "s", "c", "u", "r", "e", " ", "U", "n", "k", "n", "o", "w", "n", " ", "I", "s", "s", "u", "e">> /\ r.owasp = OwaspInsecureDesign

\* C18: within one run no step changes, removes or reorders a record that
\* is in the collection: the collection only grows at its end, and
\* save_results writes it as it is and leaves it as it is.
C18_RecordsImmutable ==
    [][ppc # "saved" =>
          /\ IsPrefix(vulnerabilities, vulnerabilities')
          /\ ppc = "save" =>
                /\ vulnerabilities' = vulnerabilities
                /\ output'.vulnerabilities = vulnerabilities]_vars

\* records of a second file were appended behind those of the first, and
\* all were saved
C18_Witness ==
    /\ ppc = "saved"
    /\ Len(listing) = 2
    /\ FileRecords(Pool[listing[1]]) # <<>>
    /\ FileRecords(Pool[listing[2]]) # <<>>
    /\ output.vulnerabilities = vulnerabilities
    /\ Len(vulnerabilities) > Len(FileRecords(Pool[listing[1]]))

\* C19: in the scan, when a closing brace brings the depth back to zero and
\* the accumulated fragment does not parse, the fragment is discarded: the
\* scan goes on with an empty accumulator and no object is added.
C19_FailedFragmentDiscarded ==
    [][(Scanning /\ ~escape_next /\ ~in_string /\ char = RB /\ bracket_depth = 1
          /\ ~JsonLoads(Append(current_policy, char)).ok) =>
          /\ current_policy' = <<>>
          /\ policies_text' = policies_text]_recVars

\* C19 (what the code does): the scan is past a closed fragment that did
\* not parse and the fragment is still in the accumulator.
C19_FragmentKept ==
    /\ pc = "scan"
    /\ bracket_depth = 0
    /\ policies_text = <<>>
    /\ current_policy # <<>>
    /\ current_policy[Len(current_policy)] = RB
    /\ ~JsonLoads(current_policy).ok

\* C20: the scan starts at the position immediately after the opening
\* bracket of the "policies" array, so the bracket is never accumulated.
C20_ScanStartsAfterBracket ==
    [][(pc = "locate" /\ pc' = "scan") =>
          /\ i' > 1
          /\ response_text[i' - 1] = "["]_recVars

\* C20 (what the code does): the first character accumulated is the bracket
C20_BracketAccumulated ==
    /\ pc = "scan"
    /\ policies_text = <<>>
    /\ current_policy = <<"[">>

\* C21: the escape-pending flag is set only by a backslash read inside a
\* string; a backslash outside a string leaves the flag clear, so the
\* character after it is read like any other.
C21_EscapeOnlyInString ==
    [][(~escape_next /\ escape_next') => in_string]_recVars

\* C21 (what the code does): the flag is set outside a string
C21_EscapeOutsideString ==
    /\ pc = "scan"
    /\ escape_next
    /\ ~in_string
    /\ current_policy[Len(current_policy)] = BSL

\* C22: the scan is one pass from left to right that ends: every iteration
\* moves the index forward over a text that does not change, never past the
\* position after the last character, so the distance to the end decreases
\* with every iteration; the loop is left only with the index at that end
\* position, and there it is left.
C22_SinglePass ==
    [][pc = "scan" =>
          /\ response_text' = response_text
          /\ i <= Len(response_text) + 1
          /\ Scanning => (pc' = "scan" /\ i < i' /\ i' <= Len(response_text) + 1)
          /\ ~Scanning => (pc' = "finish" /\ i = Len(response_text) + 1)]_recVars

\* a scan that skipped blanks and commas after closed objects has ended
C22_Witness ==
    /\ pc = "finish"
    /\ response_text = Header \o <<" ">> \o ObjA \o <<" ", ",", NL>> \o ObjB \o <<",", " ", LB, QT>>
    /\ i = Len(response_text) + 1

\* C23: after the fences are stripped, a fenced response cut off before its
\* closing fence keeps all of its content (the text after the opening fence
\* line), a fenced complete document is the unfenced document and parses to
\* the same objects, and an unfenced response is only stripped of blanks.
C23_FencesStripped ==
    pc # "start" =>
       /\ \A t \in Prefixes(Document(<<ObjA>>)) :
             raw_text = Fence \o <<NL>> \o t => response_text = Strip(t)
       /\ \A es \in ElemSeqs :
             raw_text = FenceJson \o <<NL>> \o Document(es) \o <<NL>> \o Fence =>
                /\ response_text = Document(es)
                /\ pc = "done" => result = StrictOutcome(JsonLoads(Document(es)).val)
       /\ ~StartsWith(Strip(raw_text), Fence) => response_text = Strip(raw_text)

\* a fenced response without closing fence kept its only content line
C23_Witness ==
    /\ pc = "done"
    /\ raw_text = Fence \o <<NL>> \o Header \o ObjA
    /\ response_text = Header \o ObjA
    /\ result.kind = "returned"

\* C29: during the scan the depth counter is never negative.
C29_DepthNeverNegative ==
    bracket_depth >= 0

\* C29 (what the code does): the closing brace of the outer document, read
\* at depth zero, took the counter to -1
C29_DepthBelowZero ==
    /\ pc = "scan"
    /\ bracket_depth = -1
    /\ ~in_string

\* C24: a recognized file whose extractor fails is skipped as a whole: the
\* loop step on it leaves the record collection as it was.
C24_FailedFileLeavesNothing ==
    [][(ppc = "parse" /\ pos <= Len(listing)
          /\ PoolRoute[listing[pos]] # "none" /\ ~PoolWellFormed[listing[pos]]) =>
          vulnerabilities' = vulnerabilities]_vars

\* C24 (what the code does): the Snyk report failed at its second
\* vulnerability and the record of the first one is in the dataset
C24_PartialRecordsKept ==
    /\ Parsed_all
    /\ Len(listing) = 1
    /\ Pool[listing[1]].name = <<"z", "a", "p", "_", "s", "n", "y", "k", "_", "a", "l", "l", ".", "j", "s", "o", "n">>
    /\ error_log = 1
    /\ Len(vulnerabilities) = 1
    /\ vulnerabilities[1].tool = "Snyk"

\* The signatures in priority order: keyword, and the tool of its extractor.
Signatures ==
    << <<<<"c", "o", "d", "e", "q", "l">>, "CodeQL">>, <<<<"s", "e", "m", "g", "r", "e", "p">>, "Semgrep">>,
       <<<<"n", "o", "d", "e", "j", "s", "s", "c", "a", "n">>, "NodeJsScan">>, <<<<"b", "a", "n", "d", "i", "t">>, "Bandit">>,
       <<<<"n", "p", "m", "_", "a", "u", "d", "i", "t">>, "npm audit">>, <<<<"s", "n", "y", "k">>, "Snyk">>,
       <<<<"z", "a", "p">>, "OWASP ZAP">> >>

\* Whether signature k matches the name: its keyword is in the name, as
\* written; for codeql the suffix must be .sarif as well.
SignatureMatches(name, k) ==
    /\ Contains(name, Signatures[k][1])
    /\ k = 1 => Suffix(name) = <<".", "s", "a", "r", "i", "f">>

\* The earliest matching signature, 0 when none matches.
FirstSignature(name) ==
    LET hits == {k \in DOMAIN Signatures : SignatureMatches(name, k)} IN
    IF hits = {} THEN 0 ELSE CHOOSE k \in hits : \A j \in hits : k <= j

\* C25: the loop step on a file is the call of the one extractor of the
\* earliest signature that matches its name (for zap, the JSON or the XML
\* extractor by suffix, none for another suffix), and every record the
\* step appends is that extractor's.
C25_FirstSignatureWins ==
    [][(ppc = "parse" /\ pos <= Len(listing)) =>
          LET name == report_file.name
              k == FirstSignature(name)
              n == Len(vulnerabilities)
          IN  /\ CASE k = 1 -> ParseCodeqlSarif
                   [] k = 2 -> ParseSemgrep
                   [] k = 3 -> ParseNodejsscan
                   [] k = 4 -> ParseBandit
                   [] k = 5 -> ParseNpmAudit
                   [] k = 6 -> ParseSnyk
                   [] k = 7 /\ Suffix(name) = <<".", "j", "s", "o", "n">> -> ParseZapJson
                   [] k = 7 /\ Suffix(name) = <<".", "x", "m", "l">> -> ParseZapXml
                   [] OTHER -> IgnoreFile
              /\ \A j \in (n + 1)..Len(vulnerabilities') :
                    k # 0 /\ vulnerabilities'[j].tool = Signatures[k][2]]_vars

\* names with two keywords went to the earlier signature's extractor
C25_Witness ==
    /\ Parsed_all
    /\ Len(listing) = 2
    /\ {Pool[listing[k]].name : k \in 1..2} = {<<"z", "a", "p", "_", "s", "n", "y", "k", "_", "a", "l", "l", ".", "j", "s", "o", "n">>, <<"s", "n", "y", "k", "_", "b", "a", "n", "d", "i", "t", ".", "j", "s", "o", "n">>}
    /\ {r.tool : r \in Records} = {"Snyk", "Bandit"}

\* The CWE value the claim gives each SARIF result of the reports, by rule
\* id: the number of the first result tag that has one, else of the first
\* rule tag that has one, else CWE-Unknown.
CodeqlCweExpected ==
    << <<<<"j", "s", "/", "s", "q", "l", "-", "i", "n", "j", "e", "c", "t", "i", "o", "n">>, <<"C", "W", "E", "-", "0", "8", "9">>>>,   \* second result tag "external/cwe/cwe-089"
       <<<<"j", "s", "/", "x", "x", "e">>, <<"C", "W", "E", "-", "6", "1", "1">>>>,             \* result tag "cwe" has no digits; rule tag "CWE-611"
       <<<<"j", "s", "/", "p", "a", "t", "h", "-", "a", "c", "c", "e", "s", "s">>, <<"C", "W", "E", "-", "2", "2">>>>,      \* result tag "CWE22" before "cwe-73" and the rule tag
       <<<<"j", "s", "/", "u", "n", "s", "a", "f", "e", "-", "c", "o", "d", "e">>, CweUnknown>> >>     \* rule tag "cwe-" has no digits

\* C26: when parse_all is over every CodeQL record carries the CWE value of
\* its result: result tags before rule tags, the first tag with "cwe" and a
\* number, tags with "cwe" and no number passed over, else CWE-Unknown.
C26_CodeqlCwe ==
    ppc = "save" =>
       \A r \in Records :
          r.tool = "CodeQL" =>
             /\ \E k \in DOMAIN CodeqlCweExpected : CodeqlCweExpected[k][1] = r.title
             /\ r.cwe = Lookup(CodeqlCweExpected, r.title, <<>>)

\* the four results of the report that have a location were extracted
C26_Witness ==
    /\ Parsed_all
    /\ {r.title : r \in {x \in Records : x.tool = "CodeQL"}}
          = {CodeqlCweExpected[k][1] : k \in DOMAIN CodeqlCweExpected}
    /\ \E r \in Records : r.cwe = <<"C", "W", "E", "-", "2", "2">>

RECURSIVE SnykPerProject(_)
\* The records of the projects, each taken as a single-object report, one
\* after the other; a project whose extraction fails ends the sequence.
SnykPerProject(projects) ==
    IF projects = <<>> THEN <<>>
    ELSE LET r == Extract("snyk", SnykReport(Head(projects))) IN
         IF r.raised THEN r.records
         ELSE r.records \o SnykPerProject(Tail(projects))

RECURSIVE SnykCount(_)
\* The number of vulnerabilities in the projects, with or without fix versions.
SnykCount(projects) ==
    IF projects = <<>> THEN 0
    ELSE Len(Head(projects).vulnerabilities) + SnykCount(Tail(projects))

\* C27: the Snyk extractor handles both top-level layouts alike: a single
\* project object yields the records of the one-element array holding it,
\* an array yields the records of its projects in array order, every
\* description has at most 200 characters, and when nothing fails there is
\* one record per vulnerability, fix versions given or not.
C27_SnykLayouts ==
    [][(ppc = "parse" /\ pos <= Len(listing)
          /\ PoolRoute[listing[pos]] = "snyk" /\ report_file.content.valid) =>
          LET data == report_file.content.data
              appended == SubSeq(vulnerabilities', Len(vulnerabilities) + 1,
                                 Len(vulnerabilities'))
          IN  /\ data.t = "obj" =>
                    appended = Extract("snyk", SnykReport(SnykArray(<<data>>))).records
              /\ data.t = "arr" => appended = SnykPerProject(data.v)
              /\ \A k \in 1..Len(appended) :
                    /\ appended[k].tool = "Snyk"
                    /\ Len(appended[k].description) <= 200
              /\ error_log' = error_log =>
                    Len(appended) = SnykCount(SnykProjects(data))]_vars

\* C27 (witness): the single-object report and the one-element array holding
\* the same project were both read and gave the same two records; the first
\* has a description cut to 200 characters, the second has no fix versions.
C27_Witness ==
    /\ ppc = "save"
    /\ error_log = 0
    /\ Len(listing) = 2
    /\ \A k \in 1..2 : PoolRoute[listing[k]] = "snyk"
    /\ {Pool[listing[1]].content.data.t, Pool[listing[2]].content.data.t} = {"obj", "arr"}
    /\ Len(vulnerabilities) = 4
    /\ SubSeq(vulnerabilities, 1, 2) = SubSeq(vulnerabilities, 3, 4)
    /\ Len(vulnerabilities[1].description) = 200
    /\ vulnerabilities[2].fixed_in = <<>>
    /\ vulnerabilities[2].recommendation = <<"R", "e", "v", "i", "e", "w", " ", "S", "n", "y", "k", " ", "r", "e", "c", "o", "m", "m", "e", "n", "d", "a", "t", "i", "o", "n", "s">>

\* The record field that each child element of an alertitem fills
ZapXmlField ==
    [name |-> "title", riskcode |-> "severity", desc |-> "description",
     uri |-> "url", cweid |-> "cwe", solution |-> "recommendation"]

\* Whether the alert has the child element
HasChild(alert, child) == child \in DOMAIN alert /\ alert[child] # None

\* Whether the report's content parses and each of its alertitems has every
\* child either with a text or not at all
OnlyMissingChildren(content) ==
    /\ content.valid
    /\ \A k \in 1..Len(content.findings) :
          /\ content.findings[k].isdict
          /\ \A b \in 1..6 :
                ZapXmlChildren[b] \in DOMAIN content.findings[k] =>
                    content.findings[k][ZapXmlChildren[b]] # NoText

\* C28 (as stated): the alert of a ZAP XML report lacking some of its
\* children yields one record, and every field of a missing child is the
\* empty string, "Unknown" or "CWE-Unknown"
C28_DefaultsEmptyOrUnknown ==
    [][(ppc = "parse" /\ pos <= Len(listing)
          /\ PoolRoute[listing[pos]] = "zap_xml"
          /\ OnlyMissingChildren(report_file.content)) =>
          LET alerts == report_file.content.findings
              appended == SubSeq(vulnerabilities', Len(vulnerabilities) + 1,
                                 Len(vulnerabilities'))
          IN  /\ error_log' = error_log
              /\ Len(appended) = Len(alerts)
              /\ \A k \in 1..Len(alerts) : \A b \in 1..6 :
                    ~HasChild(alerts[k], ZapXmlChildren[b]) =>
                        appended[k][ZapXmlField[ZapXmlChildren[b]]]
                            \in {<<>>, <<"U", "n", "k", "n", "o", "w", "n">>, CweUnknown}]_vars

\* C28 (amended): the alert of a ZAP XML report lacking some of its children
\* yields one record without a failure; a missing name gives the title
\* "Unknown", a missing riskcode the severity INFO, a missing cweid the cwe
\* CWE-Unknown, a missing desc, uri or solution the empty string, and the
\* children that are there give their text
C28_MissingChildrenDefaults ==
    [][(ppc = "parse" /\ pos <= Len(listing)
          /\ PoolRoute[listing[pos]] = "zap_xml"
          /\ OnlyMissingChildren(report_file.content)) =>
          LET alerts == report_file.content.findings
              appended == SubSeq(vulnerabilities', Len(vulnerabilities) + 1,
                                 Len(vulnerabilities'))
          IN  /\ error_log' = error_log
              /\ Len(appended) = Len(alerts)
              /\ \A k \in 1..Len(alerts) :
                    LET a == alerts[k]
                        rec == appended[k]
                    IN  /\ rec.tool = "OWASP ZAP"
                        /\ rec.title = IF HasChild(a, "name") THEN a.name
                                       ELSE <<"U", "n", "k", "n", "o", "w", "n">>
                        /\ rec.severity = IF HasChild(a, "riskcode")
                                          THEN RiskSeverity(a.riskcode)
                                          ELSE SevInfo
                        /\ rec.description = IF HasChild(a, "desc") THEN a.desc
                                             ELSE <<>>
                        /\ rec.url = IF HasChild(a, "uri") THEN a.uri ELSE <<>>
                        /\ rec.cwe = IF HasChild(a, "cweid")
                                     THEN <<"C", "W", "E", "-">> \o a.cweid ELSE CweUnknown
                        /\ rec.recommendation = IF HasChild(a, "solution")
                                                THEN a.solution ELSE <<>>]_vars

\* C28 (witness): two reports with sixteen alertitems each, every one
\* lacking another subset of the six children, were read without an error
\* and gave 32 records; the record of the alertitem lacking all six has
\* every default, the record of the alertitem lacking only the riskcode has
\* the severity INFO
C28_Witness ==
    /\ ppc = "save"
    /\ error_log = 0
    /\ Len(listing) = 2
    /\ Pool[listing[1]].name = <<"z", "a", "p", "_", "s", "u", "b", "s", "e", "t", "s", "_", "0", ".", "x", "m", "l">>
    /\ Pool[listing[2]].name = <<"z", "a", "p", "_", "s", "u", "b", "s", "e", "t", "s", "_", "3", ".", "x", "m", "l">>
    /\ Len(vulnerabilities) = 32
    /\ vulnerabilities[32].title = <<"U", "n", "k", "n", "o", "w", "n">>
    /\ vulnerabilities[32].severity = SevInfo
    /\ vulnerabilities[32].description = <<>>
    /\ vulnerabilities[32].url = <<>>
    /\ vulnerabilities[32].cwe = CweUnknown
    /\ vulnerabilities[32].recommendation = <<>>
    /\ vulnerabilities[3].title = <<"S", "Q", "L", " ", "I", "n", "j", "e", "c", "t", "i", "o", "n">>
    /\ vulnerabilities[3].severity = SevInfo

(***************************************************************************)
(* Properties of the runs of run-all-generations.main                      *)
(***************************************************************************)
EvaluationModels == {EVALUATION_MODELS[k] : k \in DOMAIN EVALUATION_MODELS}

\* How many entries of completed_models and failed_models name the model
Occurrences(model, p) ==
    Cardinality({k \in DOMAIN p.completed_models : p.completed_models[k] = model})
    + Cardinality({k \in DOMAIN p.failed_models : p.failed_models[k].model = model})

\* The step that calls generate_single_policy on an evaluation model
Generating == rpc = "loop" /\ rpc' = "record"

====
